---- MODULE Spec2Model ----
(***************************************************************************)
(* Model of the ai_video job pipeline: the process-pipeline edge function  *)
(* (supabase/functions/process-pipeline/index.ts) and the Ken Burns        *)
(* stitcher script (stitcher/script.js), both writing one row of the jobs  *)
(* table and one folder of the pipeline_output bucket.                     *)
(*                                                                         *)
(* Every await on the database (a select or an update of the row), on      *)
(* storage or on an external service is one step.  addLog is a select      *)
(* followed by an update, so it is two steps: the read takes a snapshot    *)
(* of logs, the write stores snapshot + entry.  A log entry is abstracted  *)
(* to <<kind, segment>>; segment 0 marks a message that names no segment.  *)
(***************************************************************************)
EXTENDS Integers, Sequences, FiniteSets, TLC

\* ---- bounds of the model ----
\* most keys the LLM returns in the voice JSON or in the image JSON
MaxKeys == 2
\* largest segment_count of a request
MaxSeg == 2
\* longest text of a segment_count in a request, in characters
MaxLen == 4
\* POST /api/submit requests in one run
MaxPosts == 2
\* index.ts:497  the largest segment count a job is run with
MaxSegmentCount == 60
\* durations that ffprobe reports, in quarters of a second: 0..MaxQuarter
MaxQuarter == 24
\* lines in the result stream of one TTS request
MaxLines == 4
\* Ken Burns clips: segments 1..MaxClipSeg, durations 0..MaxClipMs ms and the default
MaxClipSeg == 8
MaxClipMs == 120
\* jobs listed on the job page
MaxPageJobs == 2
\* SEGMENT_COUNT of a run of the stitcher script with image fallback: 1..MaxGhaSeg
MaxGhaSeg == 2
\* segments of one run of the final merge of the Ken Burns stitcher
MaxMergeSeg == 3
\* lines of a result stream that is delivered in chunks
MaxChunkLines == 3
\* POST /stitch requests to the stitcher service in one run, and job ids in them
MaxStitch == 2
\* largest segment_count of a /stitch request
MaxSvcSeg == 1

\* ---- constants of the program ----
\* withRetry(fn, 5, ...): index.ts:331, 371, 460
Retries == 5
\* script.js:161  while (attempts < 2)
EncodeAttempts == 2
\* script.js:129  let duration = 6
DefaultDuration == 6

VARIABLES
    \* the job row (setup.sql jobs table)
    status, progress, error_message, output_folder, logs,
    \* pipeline_output/job_<id>/: audio/voice_<i>.mp3, images/image_<i>.jpg, final_video.mp4
    stAudio, stImages, stFinal,
    \* edge function: environment, position and locals of pipeline()
    githubToken, segment_count, epc, segmentCount, voiceJson, imageJson, ei, eattempt, elog,
    pending, errMsg,
    \* history of the edge function run: calls of qwenSpaceTTS for the current
    \* segment, the steps entered and left, segments attempted
    ttsCalls, trace, tried,
    \* repository_dispatch events sent and not yet picked up, with their payload
    dispatches,
    \* stitcher script run: environment, position and locals of main()
    spc, SEGMENT_COUNT, si, sattempts, duration, audioOnDisk, videoFiles,
    audioFiles, workDir, slog, serr,
    \* POST /api/submit (route.ts): per request its position, body and response;
    \* the rows inserted into jobs and the requests sent to the edge function
    wpc, wbody, wresp, wrows, wtrig,
    \* stitcher service (stitcher/index.js): per /stitch request its position, job,
    \* segment_count, loop index and the segments whose video and audio it holds;
    \* the work directories that exist; per job the status and progress it wrote
    vpc, vjob, vcount, vi, vvideo, vaudio, vdirs, vrow,
    \* the progress writes of one job, for segment counts up to 60: the position
    \* in the sequence of writes, the count, the loop index, status and progress
    gpc, gcount, gi, gstatus, gprogress,
    \* speed matching of the stitcher (index.js:173-201, script.js:446-472): position,
    \* the two durations in quarter seconds, whether a voiceover exists, whether the video was
    \* retimed, and the numbers written into the setpts and atempo filters
    mpc, mvideo, maudio, mvoice, madjusted, mpts, matempo,
    \* qwenSpaceTTS reading the result stream (index.ts:137-207): position, the
    \* lines not yet read, the lines read, lastEventType, onlyNullSeen, whether
    \* audioUrl is set, and the error thrown
    xpc, xstream, xseen, xlast, xnull, xurl, xerr,
    \* one call of withRetry (index.ts:44-63): position, the parameter retries, the
    \* loop variable i, the calls of fn made, the errors fn threw in order, the
    \* attempt numbers onRetry was called with in order, and the error thrown
    rpc, rretries, ri, rcalls, rerrs, rnotified, rthrown,
    \* the zoompan filter of one Ken Burns clip (script.js:139-155): position,
    \* segment i, duration in ms, style, totalFrames, the frame n and the
    \* horizontal offset x of that frame as a fraction
    kpc, ki, kms, kstyle, kframes, kn, kx,
    \* the job page (page.tsx): per job the status of its row and the status it
    \* had when it failed; the job selected, the status the page shows for it
    \* with the same, and the state shown for each step of the progress tracker
    ujob, ufailed, uselected, ushown, ushownFailed, ustates,
    \* stitcher script with image fallback (script.js:264-544): position,
    \* SEGMENT_COUNT, i, hasVideo, videoFiles as (segment, kind) pairs, audioFiles,
    \* whether the work directory exists, the job row, whether final_video.mp4 is
    \* in storage, and the error caught
    apc, acount, ai, ahasVideo, aclips, aaudio, adir, arow, afinal, aerr,
    \* the loop and the final merge of the Ken Burns stitcher, with the lengths of
    \* the files (script.js:110-232)
    zpc, zcount, zi, zduration, zaudioFiles, zvideoFiles, zoutv, zouta,
    \* the result stream of qwenSpaceTTS delivered in chunks (index.ts:153-200)
    qpc, qstream, qcut, qpieces, qstate

rowVars == <<status, progress, error_message, output_folder, logs>>
storeVars == <<stAudio, stImages, stFinal>>
edgeVars == <<githubToken, segment_count, epc, segmentCount, voiceJson, imageJson, ei, eattempt,
              elog, pending, errMsg, ttsCalls, trace, tried, dispatches>>
stitchVars == <<spc, SEGMENT_COUNT, si, sattempts, duration, audioOnDisk,
                videoFiles, audioFiles, workDir, slog, serr>>
webVars == <<wpc, wbody, wresp, wrows, wtrig>>
\* the job pipeline, and everything beside it
pipeVars == <<rowVars, storeVars, edgeVars, stitchVars>>
svcVars == <<vpc, vjob, vcount, vi, vvideo, vaudio, vdirs, vrow>>
progVars == <<gpc, gcount, gi, gstatus, gprogress>>
speedVars == <<mpc, mvideo, maudio, mvoice, madjusted, mpts, matempo>>
ttsVars == <<xpc, xstream, xseen, xlast, xnull, xurl, xerr>>
retryVars == <<rpc, rretries, ri, rcalls, rerrs, rnotified, rthrown>>
kenVars == <<kpc, ki, kms, kstyle, kframes, kn, kx>>
uiVars == <<ujob, ufailed, uselected, ushown, ushownFailed, ustates>>
ghaVars == <<apc, acount, ai, ahasVideo, aclips, aaudio, adir, arow, afinal, aerr>>
asmVars == <<zpc, zcount, zi, zduration, zaudioFiles, zvideoFiles, zoutv, zouta>>
chunkVars == <<qpc, qstream, qcut, qpieces, qstate>>
auxVars == <<webVars, svcVars, progVars, speedVars, ttsVars, retryVars, kenVars, uiVars, ghaVars, asmVars, chunkVars>>
\* what the actions of one component leave alone
webOthers == <<pipeVars, svcVars, progVars, speedVars, ttsVars, retryVars, kenVars, uiVars, ghaVars, asmVars, chunkVars>>
svcOthers == <<pipeVars, webVars, progVars, speedVars, ttsVars, retryVars, kenVars, uiVars, ghaVars, asmVars, chunkVars>>
progOthers == <<pipeVars, webVars, svcVars, speedVars, ttsVars, retryVars, kenVars, uiVars, ghaVars, asmVars, chunkVars>>
speedOthers == <<pipeVars, webVars, svcVars, progVars, ttsVars, retryVars, kenVars, uiVars, ghaVars, asmVars, chunkVars>>
ttsOthers == <<pipeVars, webVars, svcVars, progVars, speedVars, retryVars, kenVars, uiVars, ghaVars, asmVars, chunkVars>>
retryOthers == <<pipeVars, webVars, svcVars, progVars, speedVars, ttsVars, kenVars, uiVars, ghaVars, asmVars, chunkVars>>
kenOthers == <<pipeVars, webVars, svcVars, progVars, speedVars, ttsVars, retryVars, uiVars, ghaVars, asmVars, chunkVars>>
uiOthers == <<pipeVars, webVars, svcVars, progVars, speedVars, ttsVars, retryVars, kenVars, ghaVars, asmVars, chunkVars>>
ghaOthers == <<pipeVars, webVars, svcVars, progVars, speedVars, ttsVars, retryVars, kenVars, uiVars, asmVars, chunkVars>>
asmOthers == <<pipeVars, webVars, svcVars, progVars, speedVars, ttsVars, retryVars, kenVars, uiVars, ghaVars, chunkVars>>
chunkOthers == <<pipeVars, webVars, svcVars, progVars, speedVars, ttsVars, retryVars, kenVars, uiVars, ghaVars, asmVars>>
vars == <<pipeVars, auxVars>>

\* setup.sql: CHECK (status IN (...)), in pipeline order
StatusOrder == <<"pending", "generating_jsons", "generating_voice",
                 "generating_images", "generating_videos", "stitching", "complete">>

Rank(s) == CHOOSE k \in 1..Len(StatusOrder) : StatusOrder[k] = s

\* an addLog call that has not read the row yet
NoLog == [read |-> FALSE, snap |-> {}]

\* the result of one LLM completion after cleanup: text that JSON.parse
\* accepts as an object with `keys` keys, or text it rejects
NoJson == [parses |-> FALSE, keys |-> 0]
LlmOutputs == {NoJson} \cup {[parses |-> TRUE, keys |-> k] : k \in 0..MaxKeys}

\* ---- helpers of the edge function (index.ts:20-63) ----

\* An addLog that onRetry started and nobody awaits runs beside the pipeline.
\* withRetry sleeps `delay` ms after starting it (index.ts:58), so it is taken
\* to be over before the pipeline's second database operation on logs after
\* it: it may still overlap with the first one (the select of the next addLog).
CanOverlap == \A t \in pending : ~t.overlapped
Aged(p) == {[t EXCEPT !.overlapped = TRUE] : t \in p}

\* index.ts:32  the select of addLog, at any of the awaited addLog calls
EdgeLogSites == {"jsons_log", "jsons_ok_log", "voice_log", "voice_seg_log",
                 "voice_fin_log", "voice_fail_log", "voice_skip_log",
                 "voice_done_log", "img_log", "img_seg_log", "img_fail_log",
                 "img_done_log", "trig_notoken_log", "trig_log", "trig_ok_log",
                 "trig_fail_log", "seterr_log"}

EdgeLogRead ==
    /\ epc \in EdgeLogSites
    /\ ~elog.read
    /\ CanOverlap
    /\ elog' = [read |-> TRUE, snap |-> logs]
    /\ pending' = Aged(pending)
    /\ UNCHANGED <<rowVars, storeVars, stitchVars, githubToken, segment_count, epc,
                   segmentCount, voiceJson, imageJson, ei, eattempt, errMsg, ttsCalls, trace, tried, dispatches>>
    /\ UNCHANGED auxVars

\* index.ts:33-36  logs.push(entry); updateJob({current_task, logs})
EdgeLogWrite(entry) ==
    /\ elog.read
    /\ CanOverlap
    /\ logs' = elog.snap \cup {entry}
    /\ elog' = NoLog
    /\ pending' = Aged(pending)

\* index.ts:57 with 331, 374, 460: onRetry starts addLog and does not await it.
\* The addLog of the retry before is over by then: withRetry slept `delay` ms
\* (5 s or 10 s) since it started.
SpawnLog(entry) ==
    /\ pending = {}
    /\ pending' = pending \cup {[msg |-> entry, read |-> FALSE, snap |-> {}, overlapped |-> FALSE]}

\* index.ts:32 for an addLog started by onRetry
PendingLogRead ==
    /\ \E t \in pending :
          /\ ~t.read
          /\ pending' = (pending \ {t}) \cup {[t EXCEPT !.read = TRUE, !.snap = logs]}
    /\ UNCHANGED <<rowVars, storeVars, stitchVars, githubToken, segment_count, epc,
                   segmentCount, voiceJson, imageJson, ei, eattempt, elog,
                   errMsg, ttsCalls, trace, tried, dispatches>>
    /\ UNCHANGED auxVars

\* index.ts:33-36 for an addLog started by onRetry
PendingLogWrite ==
    /\ \E t \in pending :
          /\ t.read
          /\ logs' = t.snap \cup {t.msg}
          /\ pending' = pending \ {t}
    /\ UNCHANGED <<status, progress, error_message, output_folder, storeVars,
                   stitchVars, githubToken, segment_count, epc, segmentCount,
                   voiceJson, imageJson, ei, eattempt, elog, errMsg, ttsCalls,
                   trace, tried, dispatches>>
    /\ UNCHANGED auxVars

\* index.ts:505-506  a step threw: pipeline() catches and calls setError(msg)
EdgeThrow(step, msg) ==
    /\ epc' = "seterr_log"
    /\ errMsg' = msg
    /\ trace' = Append(trace, <<"throw", step>>)

\* ---- the segment count of a request (index.ts:497) ----
\* segment_count holds String(segment_count), the text parseInt is given: a
\* sequence of characters.  A JSON number arrives as its decimal numeral and a
\* missing field as the text "undefined".
Digits == <<"0", "1", "2", "3", "4", "5", "6", "7", "8", "9">>

IsDigit(c) == \E d \in 1..10 : Digits[d] = c

DigitValue(c) == (CHOOSE d \in 1..10 : Digits[d] = c) - 1

\* String(n) for an integer n >= 0
RECURSIVE DecimalText(_)
DecimalText(n) ==
    IF n < 10 THEN <<Digits[n + 1]>>
    ELSE DecimalText(n \div 10) \o <<Digits[(n % 10) + 1]>>

\* String(undefined)
UndefinedText == <<"u", "n", "d", "e", "f", "i", "n", "e", "d">>

\* parseInt step 1: leading white space is dropped
RECURSIVE TrimStart(_)
TrimStart(s) ==
    IF s # <<>> /\ s[1] = " " THEN TrimStart(Tail(s)) ELSE s

\* parseInt: the value of the longest prefix of s made of digits, read from the
\* left, having read the value acc so far
RECURSIVE DigitPrefixValue(_, _)
DigitPrefixValue(s, acc) ==
    IF s # <<>> /\ IsDigit(s[1])
      THEN DigitPrefixValue(Tail(s), (acc * 10) + DigitValue(s[1]))
      ELSE acc

\* parseInt(s, 10): white space, an optional sign, then digits up to the first
\* character that is no digit; NaN when no digit is there
ParseInt(s) ==
    LET t == TrimStart(s)
        signed == t # <<>> /\ t[1] \in {"-", "+"}
        u == IF signed THEN Tail(t) ELSE t
        v == DigitPrefixValue(u, 0)
    IN  IF u # <<>> /\ IsDigit(u[1])
          THEN [nan |-> FALSE, val |-> IF signed /\ t[1] = "-" THEN -v ELSE v]
          ELSE [nan |-> TRUE, val |-> 0]

\* ClampCount as it would be if only NaN, and not 0, fell back to 5
ClampCountNanOnly(p) ==
    LET m == IF p.nan THEN 5 ELSE p.val
        lo == IF m > 1 THEN m ELSE 1
    IN  IF lo < 60 THEN lo ELSE 60

\* index.ts:497  Math.min(Math.max(p || 5, 1), 60): NaN, 0 and -0 are falsy
ClampCount(p) ==
    LET m == IF p.nan \/ p.val = 0 THEN 5 ELSE p.val
        lo == IF m > 1 THEN m ELSE 1
    IN  IF lo < 60 THEN lo ELSE 60

\* texts of a request with an integer segment count of 1..MaxSeg
RequestCounts == {DecimalText(n) : n \in 1..MaxSeg}

\* characters of the texts tried: sign, point, space, a letter and digits
Chars == {"-", ".", " ", "a", "0", "1", "6", "7"}

RECURSIVE TextsOfLength(_)
TextsOfLength(n) ==
    IF n = 0 THEN {<<>>}
    ELSE {Append(t, c) : t \in TextsOfLength(n - 1), c \in Chars}

\* every text of at most MaxLen characters, and a request without the field
RequestTexts == UNION {TextsOfLength(n) : n \in 0..MaxLen} \cup {UndefinedText}

\* ---- Deno.serve handler (index.ts:483-517) ----
ServeWith(texts) ==
    /\ epc = "serve"
    /\ \E s \in texts :
          /\ segment_count' = s
          /\ segmentCount' = ClampCount(ParseInt(s))
    /\ epc' = "jsons_log"
    /\ trace' = <<<<"call", "generateJsons">>>>
    /\ UNCHANGED <<rowVars, storeVars, stitchVars, githubToken,
                   voiceJson, imageJson, ei, eattempt, elog, pending, errMsg,
                   ttsCalls, tried, dispatches>>
    /\ UNCHANGED auxVars

\* a request of the web application: an integer count (route.ts:50)
Serve == ServeWith(RequestCounts)

\* a request with any text as its count
ServeAny == ServeWith(RequestTexts)

\* ---- Step 1: generateJsons (index.ts:211-344) ----
JsonsLog ==
    /\ epc = "jsons_log"
    /\ EdgeLogWrite(<<"jsons_begin", 0>>)
    /\ epc' = "jsons_status"
    /\ UNCHANGED <<status, progress, error_message, output_folder, storeVars,
                   stitchVars, githubToken, segment_count, segmentCount, voiceJson,
                   imageJson, ei, eattempt, errMsg, ttsCalls, trace,
                   tried, dispatches>>
    /\ UNCHANGED auxVars

JsonsStatus ==
    /\ epc = "jsons_status"
    /\ status' = "generating_jsons"
    /\ progress' = 5
    /\ epc' = "jsons_try"
    /\ eattempt' = 0
    /\ UNCHANGED <<error_message, output_folder, logs, storeVars, stitchVars,
                   githubToken, segment_count, segmentCount, voiceJson, imageJson,
                   ei, elog, pending, errMsg, ttsCalls, trace, tried, dispatches>>
    /\ UNCHANGED auxVars

\* one attempt of withRetry around the two OpenRouter requests (index.ts:268-331)
JsonsTry ==
    /\ epc = "jsons_try"
    /\ \/ \E v \in LlmOutputs, im \in LlmOutputs :
             /\ voiceJson' = v
             /\ imageJson' = im
             /\ epc' = "jsons_ok_log"
             /\ eattempt' = 0
             /\ UNCHANGED <<pending, errMsg, trace>>
       \/ /\ eattempt < Retries
          /\ SpawnLog(<<"jsons_retry", 0>>)
          /\ eattempt' = eattempt + 1
          /\ UNCHANGED <<epc, voiceJson, imageJson, errMsg, trace>>
       \/ /\ eattempt >= Retries
          /\ EdgeThrow("generateJsons", "OpenRouter failed")
          /\ eattempt' = 0
          /\ UNCHANGED <<pending, voiceJson, imageJson>>
    /\ UNCHANGED <<rowVars, storeVars, stitchVars, githubToken, segment_count,
                   segmentCount, ei, elog, ttsCalls, tried, dispatches>>
    /\ UNCHANGED auxVars

JsonsOkLog ==
    /\ epc = "jsons_ok_log"
    /\ EdgeLogWrite(<<"jsons_ok", 0>>)
    /\ epc' = "jsons_save"
    /\ UNCHANGED <<status, progress, error_message, output_folder, storeVars,
                   stitchVars, githubToken, segment_count, segmentCount, voiceJson,
                   imageJson, ei, eattempt, errMsg, ttsCalls, trace,
                   tried, dispatches>>
    /\ UNCHANGED auxVars

JsonsSave ==
    /\ epc = "jsons_save"
    /\ progress' = 10
    /\ epc' = "voice_status"
    /\ trace' = trace \o <<<<"ret", "generateJsons">>, <<"call", "generateVoice">>>>
    /\ UNCHANGED <<status, error_message, output_folder, logs, storeVars,
                   stitchVars, githubToken, segment_count, segmentCount, voiceJson,
                   imageJson, ei, eattempt, elog, pending, errMsg, ttsCalls,
                   tried, dispatches>>
    /\ UNCHANGED auxVars

\* ---- Step 2: generateVoice (index.ts:351-396) ----
VoiceStatus ==
    /\ epc = "voice_status"
    /\ status' = "generating_voice"
    /\ progress' = 35
    /\ epc' = "voice_log"
    /\ UNCHANGED <<error_message, output_folder, logs, storeVars, stitchVars,
                   githubToken, segment_count, segmentCount, voiceJson, imageJson,
                   ei, eattempt, elog, pending, errMsg, ttsCalls, trace, tried,
                   dispatches>>
    /\ UNCHANGED auxVars

\* index.ts:353-361  the log, then JSON.parse(voiceJson) and the loop test
VoiceLog ==
    /\ epc = "voice_log"
    /\ EdgeLogWrite(<<"voice_begin", 0>>)
    /\ IF ~voiceJson.parses
         THEN /\ EdgeThrow("generateVoice", "voice JSON does not parse")
              /\ UNCHANGED ei
         ELSE /\ ei' = 1
              /\ epc' = IF voiceJson.keys >= 1 THEN "voice_seg_log" ELSE "voice_done_log"
              /\ UNCHANGED <<errMsg, trace>>
    /\ UNCHANGED <<status, progress, error_message, output_folder, storeVars,
                   stitchVars, githubToken, segment_count, segmentCount, voiceJson,
                   imageJson, eattempt, ttsCalls, tried, dispatches>>
    /\ UNCHANGED auxVars

VoiceSegLog ==
    /\ epc = "voice_seg_log"
    /\ EdgeLogWrite(<<"voice_seg", ei>>)
    /\ epc' = "voice_try"
    /\ eattempt' = 0
    /\ ttsCalls' = 0
    /\ UNCHANGED <<status, progress, error_message, output_folder, storeVars,
                   stitchVars, githubToken, segment_count, segmentCount, voiceJson,
                   imageJson, ei, errMsg, trace, tried, dispatches>>
    /\ UNCHANGED auxVars

\* one attempt of withRetry(() => qwenSpaceTTS(text, speaker), 5, ...) (index.ts:369-376)
VoiceTry ==
    /\ epc = "voice_try"
    /\ ttsCalls' = ttsCalls + 1
    /\ tried' = tried \cup {<<"voice", ei>>}
    /\ \/ /\ epc' = "voice_upload"
          /\ UNCHANGED <<eattempt, pending>>
       \/ /\ eattempt < Retries
          /\ SpawnLog(<<"voice_retry", ei>>)
          /\ eattempt' = eattempt + 1
          /\ UNCHANGED epc
       \/ /\ eattempt >= Retries
          /\ epc' = "voice_fail_log"
          /\ eattempt' = 0
          /\ UNCHANGED pending
    /\ UNCHANGED <<rowVars, storeVars, stitchVars, githubToken, segment_count,
                   segmentCount, voiceJson, imageJson, ei, elog, errMsg, trace,
                   dispatches>>
    /\ UNCHANGED auxVars

\* VoiceUpload as it would be with the loop variable i in the file name
VoiceUploadZeroBased ==
    /\ epc = "voice_upload"
    /\ stAudio' = stAudio \cup {ei - 1}
    /\ epc' = "voice_fin_log"
    /\ UNCHANGED <<rowVars, stImages, stFinal, stitchVars, githubToken,
                   segment_count, segmentCount, voiceJson, imageJson, ei, eattempt,
                   elog, pending, errMsg, ttsCalls, trace, tried, dispatches>>
    /\ UNCHANGED auxVars

\* index.ts:378-383  upload to audio/voice_<i+1>.mp3.  The result of upload() is
\* not looked at; the upload is taken to succeed, since for every reader of the
\* file a lost upload is the same as a failed download (see DownloadAudio).
VoiceUpload ==
    /\ epc = "voice_upload"
    /\ stAudio' = stAudio \cup {ei}
    /\ epc' = "voice_fin_log"
    /\ UNCHANGED <<rowVars, stImages, stFinal, stitchVars, githubToken,
                   segment_count, segmentCount, voiceJson, imageJson, ei, eattempt,
                   elog, pending, errMsg, ttsCalls, trace, tried, dispatches>>
    /\ UNCHANGED auxVars

\* index.ts:361  i++ and the loop test
VoiceNext ==
    /\ ei' = ei + 1
    /\ ttsCalls' = 0
    /\ epc' = IF ei < voiceJson.keys THEN "voice_seg_log" ELSE "voice_done_log"

VoiceFinLog ==
    /\ epc = "voice_fin_log"
    /\ EdgeLogWrite(<<"voice_stored", ei>>)
    /\ VoiceNext
    /\ UNCHANGED <<status, progress, error_message, output_folder, storeVars,
                   stitchVars, githubToken, segment_count, segmentCount, voiceJson,
                   imageJson, eattempt, errMsg, trace, tried,
                   dispatches>>
    /\ UNCHANGED auxVars


\* VoiceFailLog as it would be if a segment that failed every retry ended the step
VoiceFailLogAborts ==
    /\ epc = "voice_fail_log"
    /\ EdgeLogWrite(<<"voice_failed", ei>>)
    /\ EdgeThrow("generateVoice", "voice segment failed")
    /\ UNCHANGED <<status, progress, error_message, output_folder, storeVars,
                   stitchVars, githubToken, segment_count, segmentCount, voiceJson,
                   imageJson, ei, eattempt, ttsCalls, tried, dispatches>>
    /\ UNCHANGED auxVars

\* index.ts:386-388  catch: the segment failed after retries
VoiceFailLog ==
    /\ epc = "voice_fail_log"
    /\ EdgeLogWrite(<<"voice_failed", ei>>)
    /\ epc' = "voice_skip_log"
    /\ UNCHANGED <<status, progress, error_message, output_folder, storeVars,
                   stitchVars, githubToken, segment_count, segmentCount, voiceJson,
                   imageJson, ei, eattempt, errMsg, ttsCalls, trace,
                   tried, dispatches>>
    /\ UNCHANGED auxVars

VoiceSkipLog ==
    /\ epc = "voice_skip_log"
    /\ EdgeLogWrite(<<"voice_skipped", ei>>)
    /\ VoiceNext
    /\ UNCHANGED <<status, progress, error_message, output_folder, storeVars,
                   stitchVars, githubToken, segment_count, segmentCount, voiceJson,
                   imageJson, eattempt, errMsg, trace, tried,
                   dispatches>>
    /\ UNCHANGED auxVars

VoiceDoneLog ==
    /\ epc = "voice_done_log"
    /\ EdgeLogWrite(<<"voice_done", 0>>)
    /\ epc' = "voice_progress"
    /\ UNCHANGED <<status, progress, error_message, output_folder, storeVars,
                   stitchVars, githubToken, segment_count, segmentCount, voiceJson,
                   imageJson, ei, eattempt, errMsg, ttsCalls, trace,
                   tried, dispatches>>
    /\ UNCHANGED auxVars

VoiceProgress ==
    /\ epc = "voice_progress"
    /\ progress' = 40
    /\ epc' = "img_status"
    /\ trace' = trace \o <<<<"ret", "generateVoice">>, <<"call", "generateImages">>>>
    /\ UNCHANGED <<status, error_message, output_folder, logs, storeVars,
                   stitchVars, githubToken, segment_count, segmentCount, voiceJson,
                   imageJson, ei, eattempt, elog, pending, errMsg, ttsCalls,
                   tried, dispatches>>
    /\ UNCHANGED auxVars

\* ---- Step 3: generateImages (index.ts:438-480) ----
ImgStatus ==
    /\ epc = "img_status"
    /\ status' = "generating_images"
    /\ progress' = 40
    /\ epc' = "img_log"
    /\ UNCHANGED <<error_message, output_folder, logs, storeVars, stitchVars,
                   githubToken, segment_count, segmentCount, voiceJson, imageJson,
                   ei, eattempt, elog, pending, errMsg, ttsCalls, trace, tried,
                   dispatches>>
    /\ UNCHANGED auxVars

\* index.ts:440-446  the log, then JSON.parse(imageJson) and the loop test
ImgLog ==
    /\ epc = "img_log"
    /\ EdgeLogWrite(<<"img_begin", 0>>)
    /\ IF ~imageJson.parses
         THEN /\ EdgeThrow("generateImages", "image JSON does not parse")
              /\ UNCHANGED ei
         ELSE /\ ei' = 1
              /\ epc' = IF imageJson.keys >= 1 THEN "img_seg_log" ELSE "img_done_log"
              /\ UNCHANGED <<errMsg, trace>>
    /\ UNCHANGED <<status, progress, error_message, output_folder, storeVars,
                   stitchVars, githubToken, segment_count, segmentCount, voiceJson,
                   imageJson, eattempt, ttsCalls, tried, dispatches>>
    /\ UNCHANGED auxVars

ImgSegLog ==
    /\ epc = "img_seg_log"
    /\ EdgeLogWrite(<<"img_seg", ei>>)
    /\ epc' = "img_try"
    /\ eattempt' = 0
    /\ UNCHANGED <<status, progress, error_message, output_folder, storeVars,
                   stitchVars, githubToken, segment_count, segmentCount, voiceJson,
                   imageJson, ei, errMsg, ttsCalls, trace, tried,
                   dispatches>>
    /\ UNCHANGED auxVars

\* one attempt of withRetry around the FLUX request (index.ts:451-460)
ImgTry ==
    /\ epc = "img_try"
    /\ tried' = tried \cup {<<"image", ei>>}
    /\ \/ /\ epc' = "img_upload"
          /\ UNCHANGED <<eattempt, pending>>
       \/ /\ eattempt < Retries
          /\ SpawnLog(<<"img_retry", ei>>)
          /\ eattempt' = eattempt + 1
          /\ UNCHANGED epc
       \/ /\ eattempt >= Retries
          /\ epc' = "img_fail_log"
          /\ eattempt' = 0
          /\ UNCHANGED pending
    /\ UNCHANGED <<rowVars, storeVars, stitchVars, githubToken, segment_count,
                   segmentCount, voiceJson, imageJson, ei, elog, errMsg, ttsCalls,
                   trace, dispatches>>
    /\ UNCHANGED auxVars

\* index.ts:463-468  upload to images/image_<i+1>.jpg, taken to succeed as in
\* VoiceUpload
ImgUpload ==
    /\ epc = "img_upload"
    /\ stImages' = stImages \cup {ei}
    /\ epc' = "img_progress"
    /\ UNCHANGED <<rowVars, stAudio, stFinal, stitchVars, githubToken,
                   segment_count, segmentCount, voiceJson, imageJson, ei, eattempt,
                   elog, pending, errMsg, ttsCalls, trace, tried, dispatches>>
    /\ UNCHANGED auxVars

\* index.ts:446  i++ and the loop test
ImgNext ==
    /\ ei' = ei + 1
    /\ epc' = IF ei < imageJson.keys THEN "img_seg_log" ELSE "img_done_log"

\* index.ts:470  40 + Math.floor(((i + 1) / imageKeys.length) * 30)
ImgProgressValueUndivided(k, n) == 40 + (k * 30)

ImgProgressValue(k, n) == 40 + ((k * 30) \div n)

ImgProgress ==
    /\ epc = "img_progress"
    /\ progress' = ImgProgressValue(ei, imageJson.keys)
    /\ ImgNext
    /\ UNCHANGED <<status, error_message, output_folder, logs, storeVars,
                   stitchVars, githubToken, segment_count, segmentCount, voiceJson,
                   imageJson, eattempt, elog, pending, errMsg, ttsCalls, trace,
                   tried, dispatches>>
    /\ UNCHANGED auxVars

\* index.ts:474-476  catch: the image failed after retries
ImgFailLog ==
    /\ epc = "img_fail_log"
    /\ EdgeLogWrite(<<"img_failed", ei>>)
    /\ ImgNext
    /\ UNCHANGED <<status, progress, error_message, output_folder, storeVars,
                   stitchVars, githubToken, segment_count, segmentCount, voiceJson,
                   imageJson, eattempt, errMsg, ttsCalls, trace, tried,
                   dispatches>>
    /\ UNCHANGED auxVars

\* index.ts:479, then 402: triggerStitcher starts and tests GITHUB_TOKEN
ImgDoneLog ==
    /\ epc = "img_done_log"
    /\ EdgeLogWrite(<<"img_done", 0>>)
    /\ \E token \in BOOLEAN :
          /\ githubToken' = token
          /\ epc' = IF token THEN "trig_log" ELSE "trig_notoken_log"
    /\ trace' = trace \o <<<<"ret", "generateImages">>, <<"call", "triggerStitcher">>>>
    /\ UNCHANGED <<status, progress, error_message, output_folder, storeVars,
                   stitchVars, segment_count, segmentCount, voiceJson,
                   imageJson, ei, eattempt, errMsg, ttsCalls, tried,
                   dispatches>>
    /\ UNCHANGED auxVars

\* ---- Step 4: triggerStitcher (index.ts:401-435) ----
\* GITHUB_TOKEN (index.ts:398) is read here only; whether it is set is chosen
\* where it is tested.
\* index.ts:402-405  no token: a warning, and return
TrigNoTokenLog ==
    /\ epc = "trig_notoken_log"
    /\ EdgeLogWrite(<<"trig_no_token", 0>>)
    /\ epc' = "done"
    /\ trace' = Append(trace, <<"ret", "triggerStitcher">>)
    /\ UNCHANGED <<status, progress, error_message, output_folder, storeVars,
                   stitchVars, githubToken, segment_count, segmentCount, voiceJson,
                   imageJson, ei, eattempt, errMsg, ttsCalls, tried,
                   dispatches>>
    /\ UNCHANGED auxVars

TrigLog ==
    /\ epc = "trig_log"
    /\ EdgeLogWrite(<<"trig_begin", 0>>)
    /\ epc' = "trig_fetch"
    /\ UNCHANGED <<status, progress, error_message, output_folder, storeVars,
                   stitchVars, githubToken, segment_count, segmentCount, voiceJson,
                   imageJson, ei, eattempt, errMsg, ttsCalls, trace,
                   tried, dispatches>>
    /\ UNCHANGED auxVars

\* index.ts:409-431  POST /dispatches: accepted (the workflow run is queued with
\* the payload), or rejected, or the request itself fails
TrigFetch ==
    /\ epc = "trig_fetch"
    /\ \/ /\ dispatches' = Append(dispatches, segmentCount)
          /\ trace' = Append(trace, <<"dispatch", "stitch_video">>)
          /\ epc' = "trig_ok_log"
       \/ /\ epc' = "trig_fail_log"
          /\ UNCHANGED <<dispatches, trace>>
    /\ UNCHANGED <<rowVars, storeVars, stitchVars, githubToken, segment_count,
                   segmentCount, voiceJson, imageJson, ei, eattempt, elog, pending,
                   errMsg, ttsCalls, tried>>
    /\ UNCHANGED auxVars


\* TrigOkLog as it would be if the request were sent again after it was accepted
TrigOkLogAgain ==
    /\ epc = "trig_ok_log"
    /\ EdgeLogWrite(<<"trig_ok", 0>>)
    /\ epc' = "trig_fetch"
    /\ UNCHANGED <<status, progress, error_message, output_folder, storeVars,
                   stitchVars, githubToken, segment_count, segmentCount, voiceJson,
                   imageJson, ei, eattempt, errMsg, ttsCalls, trace,
                   tried, dispatches>>
    /\ UNCHANGED auxVars

TrigOkLog ==
    /\ epc = "trig_ok_log"
    /\ EdgeLogWrite(<<"trig_ok", 0>>)
    /\ epc' = "trig_status"
    /\ UNCHANGED <<status, progress, error_message, output_folder, storeVars,
                   stitchVars, githubToken, segment_count, segmentCount, voiceJson,
                   imageJson, ei, eattempt, errMsg, ttsCalls, trace,
                   tried, dispatches>>
    /\ UNCHANGED auxVars

\* index.ts:427
TrigStatus ==
    /\ epc = "trig_status"
    /\ status' = "stitching"
    /\ progress' = 70
    /\ epc' = "done"
    /\ trace' = Append(trace, <<"ret", "triggerStitcher">>)
    /\ UNCHANGED <<error_message, output_folder, logs, storeVars, stitchVars,
                   githubToken, segment_count, segmentCount, voiceJson, imageJson,
                   ei, eattempt, elog, pending, errMsg, ttsCalls, tried, dispatches>>
    /\ UNCHANGED auxVars

\* index.ts:432-434  catch: only a log entry
TrigFailLog ==
    /\ epc = "trig_fail_log"
    /\ EdgeLogWrite(<<"trig_failed", 0>>)
    /\ epc' = "done"
    /\ trace' = Append(trace, <<"ret", "triggerStitcher">>)
    /\ UNCHANGED <<status, progress, error_message, output_folder, storeVars,
                   stitchVars, githubToken, segment_count, segmentCount, voiceJson,
                   imageJson, ei, eattempt, errMsg, ttsCalls, tried,
                   dispatches>>
    /\ UNCHANGED auxVars

\* ---- setError (index.ts:39-42), called from the catch of pipeline() ----
SetErrorLog ==
    /\ epc = "seterr_log"
    /\ EdgeLogWrite(<<"pipeline_error", 0>>)
    /\ epc' = "seterr_status"
    /\ UNCHANGED <<status, progress, error_message, output_folder, storeVars,
                   stitchVars, githubToken, segment_count, segmentCount, voiceJson,
                   imageJson, ei, eattempt, errMsg, ttsCalls, trace,
                   tried, dispatches>>
    /\ UNCHANGED auxVars

SetErrorStatus ==
    /\ epc = "seterr_status"
    /\ status' = "error"
    /\ error_message' = errMsg
    /\ epc' = "done"
    /\ UNCHANGED <<progress, output_folder, logs, storeVars, stitchVars,
                   githubToken, segment_count, segmentCount, voiceJson, imageJson,
                   ei, eattempt, elog, pending, errMsg, ttsCalls, trace, tried,
                   dispatches>>
    /\ UNCHANGED auxVars

EdgeNext ==
    \/ Serve \/ EdgeLogRead \/ PendingLogRead \/ PendingLogWrite
    \/ JsonsLog \/ JsonsStatus \/ JsonsTry \/ JsonsOkLog \/ JsonsSave
    \/ VoiceStatus \/ VoiceLog \/ VoiceSegLog \/ VoiceTry \/ VoiceUpload
    \/ VoiceFinLog \/ VoiceFailLog \/ VoiceSkipLog \/ VoiceDoneLog \/ VoiceProgress
    \/ ImgStatus \/ ImgLog \/ ImgSegLog \/ ImgTry \/ ImgUpload \/ ImgProgress
    \/ ImgFailLog \/ ImgDoneLog
    \/ TrigNoTokenLog \/ TrigLog \/ TrigFetch \/ TrigOkLog \/ TrigStatus
    \/ TrigFailLog \/ SetErrorLog \/ SetErrorStatus

\* ---- stitcher script, Ken Burns edition (script.js:1-262) ----

\* durations ffprobe reports for a readable audio file, in seconds; 0 stands for
\* `metadata.format.duration || 0` of a file without a duration (script.js:64)
ProbeDurations == {0, 4}

\* script.js:91  the select of addLog, at any addLog call of main()
StitchLogSites == {"s_start_log", "s_prep_log", "s_audio_miss_log", "s_seg_log",
                   "s_enc_log", "s_vis_fail_log", "s_merge_log", "s_upload_log",
                   "s_ready_log", "s_crit_log"}

StitchLogRead ==
    /\ spc \in StitchLogSites
    /\ ~slog.read
    /\ slog' = [read |-> TRUE, snap |-> logs]
    /\ UNCHANGED <<rowVars, storeVars, edgeVars, spc, SEGMENT_COUNT, si, sattempts,
                   duration, audioOnDisk, videoFiles, audioFiles, workDir, serr>>
    /\ UNCHANGED auxVars

\* script.js:92-95  logs.push(entry); updateJob({current_task, logs})
StitchLogWrite(entry) ==
    /\ slog.read
    /\ logs' = slog.snap \cup {entry}
    /\ slog' = NoLog

\* script.js:251  an exception reaches the catch of main()
StitchThrow(msg) ==
    /\ serr' = msg
    /\ spc' = "s_crit_log"

\* script.js:16-24  the workflow run starts the script with the payload of the
\* dispatch as JOB_ID and SEGMENT_COUNT; without its environment it exits at once
StitchStart ==
    /\ spc = "idle"
    /\ dispatches # <<>>
    /\ dispatches' = Tail(dispatches)
    /\ SEGMENT_COUNT' = Head(dispatches)
    /\ \E envSet \in BOOLEAN :
          spc' = IF envSet /\ Head(dispatches) # 0 THEN "s_start_log" ELSE "exited"
    /\ UNCHANGED <<rowVars, storeVars, githubToken, segment_count, epc, segmentCount,
                   voiceJson, imageJson, ei, eattempt, elog, pending, errMsg,
                   ttsCalls, trace, tried, si, sattempts, duration, audioOnDisk,
                   videoFiles, audioFiles, workDir, slog, serr>>
    /\ UNCHANGED auxVars

\* script.js:100-104  the first log, then mkdir of /tmp/stitch_<JOB_ID>
SStartLog ==
    /\ spc = "s_start_log"
    /\ StitchLogWrite(<<"st_start", 0>>)
    /\ workDir' = TRUE
    /\ spc' = "s_status"
    /\ UNCHANGED <<status, progress, error_message, output_folder, storeVars,
                   edgeVars, SEGMENT_COUNT, si, sattempts, duration, audioOnDisk,
                   videoFiles, audioFiles, serr>>
    /\ UNCHANGED auxVars

\* script.js:107
SStatus ==
    /\ spc = "s_status"
    /\ status' = "stitching"
    /\ progress' = 75
    /\ spc' = "s_prep_log"
    /\ UNCHANGED <<error_message, output_folder, logs, storeVars, edgeVars,
                   SEGMENT_COUNT, si, sattempts, duration, audioOnDisk, videoFiles,
                   audioFiles, workDir, slog, serr>>
    /\ UNCHANGED auxVars

\* script.js:108-113
SPrepLog ==
    /\ spc = "s_prep_log"
    /\ StitchLogWrite(<<"st_prepare", 0>>)
    /\ si' = 1
    /\ spc' = "s_audio_dl"
    /\ UNCHANGED <<status, progress, error_message, output_folder, storeVars,
                   edgeVars, SEGMENT_COUNT, sattempts, duration, audioOnDisk,
                   videoFiles, audioFiles, workDir, serr>>
    /\ UNCHANGED auxVars

\* script.js:122-127 with downloadFile (script.js:30-58): createWriteStream makes
\* the file before the response arrives, so a failed download leaves an empty
\* file (rejects at 39 and 49), unless the stream's error handler unlinks it (53)
DownloadAudio ==
    /\ spc = "s_audio_dl"
    /\ \/ /\ si \in stAudio
          /\ audioFiles' = Append(audioFiles, si)
          /\ audioOnDisk' = TRUE
          /\ spc' = "s_probe"
       \/ /\ audioOnDisk' \in BOOLEAN
          /\ spc' = "s_audio_miss_log"
          /\ UNCHANGED audioFiles
    /\ UNCHANGED <<rowVars, storeVars, edgeVars, SEGMENT_COUNT, si, sattempts,
                   duration, videoFiles, workDir, slog, serr>>
    /\ UNCHANGED auxVars

SAudioMissLog ==
    /\ spc = "s_audio_miss_log"
    /\ StitchLogWrite(<<"st_missing_audio", si>>)
    /\ spc' = "s_probe"
    /\ UNCHANGED <<status, progress, error_message, output_folder, storeVars,
                   edgeVars, SEGMENT_COUNT, si, sattempts, duration, audioOnDisk,
                   videoFiles, audioFiles, workDir, serr>>
    /\ UNCHANGED auxVars

\* script.js:129-132  ffprobe of the file at audioPath, if there is one.  It is
\* outside the two inner try blocks: a rejection reaches the catch of main().
\* ffprobe rejects an empty file; a downloaded file may be truncated or corrupt.
ProbeAudio ==
    /\ spc = "s_probe"
    /\ IF audioOnDisk
         THEN \/ /\ audioFiles # <<>>
                 /\ audioFiles[Len(audioFiles)] = si
                 /\ duration' \in ProbeDurations
                 /\ spc' = "s_seg_log"
                 /\ UNCHANGED serr
              \/ /\ StitchThrow("ffprobe failed")
                 /\ UNCHANGED duration
         ELSE /\ duration' = DefaultDuration
              /\ spc' = "s_seg_log"
              /\ UNCHANGED serr
    /\ UNCHANGED <<rowVars, storeVars, edgeVars, SEGMENT_COUNT, si, sattempts,
                   audioOnDisk, videoFiles, audioFiles, workDir, slog>>
    /\ UNCHANGED auxVars

SSegLog ==
    /\ spc = "s_seg_log"
    /\ StitchLogWrite(<<"st_segment", si>>)
    /\ spc' = "s_img_dl"
    /\ UNCHANGED <<status, progress, error_message, output_folder, storeVars,
                   edgeVars, SEGMENT_COUNT, si, sattempts, duration, audioOnDisk,
                   videoFiles, audioFiles, workDir, serr>>
    /\ UNCHANGED auxVars

\* script.js:137  a failure is caught at 191
DownloadImage ==
    /\ spc = "s_img_dl"
    /\ \/ /\ si \in stImages
          /\ spc' = "s_enc_log"
       \/ spc' = "s_vis_fail_log"
    /\ UNCHANGED <<rowVars, storeVars, edgeVars, SEGMENT_COUNT, si, sattempts,
                   duration, audioOnDisk, videoFiles, audioFiles, workDir, slog,
                   serr>>
    /\ UNCHANGED auxVars

\* script.js:157-160
SEncLog ==
    /\ spc = "s_enc_log"
    /\ StitchLogWrite(<<"st_encoding", si>>)
    /\ sattempts' = 0
    /\ spc' = "s_encode"
    /\ UNCHANGED <<status, progress, error_message, output_folder, storeVars,
                   edgeVars, SEGMENT_COUNT, si, duration, audioOnDisk, videoFiles,
                   audioFiles, workDir, serr>>
    /\ UNCHANGED auxVars

\* script.js:161-188  one run of ffmpeg; after it, the test of the output file
Encode ==
    /\ spc = "s_encode"
    /\ \/ /\ videoFiles' = Append(videoFiles, si)
          /\ spc' = "s_progress"
          /\ sattempts' = 0
       \/ /\ spc' = "s_vis_fail_log"
          /\ sattempts' = 0
          /\ UNCHANGED videoFiles
       \/ /\ sattempts + 1 < EncodeAttempts
          /\ sattempts' = sattempts + 1
          /\ UNCHANGED <<spc, videoFiles>>
       \/ /\ sattempts + 1 >= EncodeAttempts
          /\ sattempts' = 0
          /\ spc' = "s_vis_fail_log"
          /\ UNCHANGED videoFiles
    /\ UNCHANGED <<rowVars, storeVars, edgeVars, SEGMENT_COUNT, si, duration,
                   audioOnDisk, audioFiles, workDir, slog, serr>>
    /\ UNCHANGED auxVars

\* script.js:113 i++ and the loop test, then 196
StitchNextSegment ==
    /\ duration' = 0
    /\ audioOnDisk' = FALSE
    /\ IF si < SEGMENT_COUNT
         THEN /\ si' = si + 1
              /\ spc' = "s_audio_dl"
              /\ UNCHANGED serr
         ELSE /\ UNCHANGED si
              /\ IF videoFiles = <<>>
                   THEN StitchThrow("No video segments successfully created.")
                   ELSE spc' = "s_merge_log" /\ UNCHANGED serr

\* script.js:190  Math.min(75 + Math.floor((i / SEGMENT_COUNT) * 15), 90)
StitchProgressValue(i, n) ==
    LET p == 75 + ((i * 15) \div n) IN IF p < 90 THEN p ELSE 90

SProgress ==
    /\ spc = "s_progress"
    /\ progress' = StitchProgressValue(si, SEGMENT_COUNT)
    /\ StitchNextSegment
    /\ UNCHANGED <<status, error_message, output_folder, logs, storeVars, edgeVars,
                   SEGMENT_COUNT, sattempts, videoFiles, audioFiles, workDir, slog>>
    /\ UNCHANGED auxVars

SVisFailLogAborts ==
    /\ spc = "s_vis_fail_log"
    /\ StitchLogWrite(<<"st_visual_failed", si>>)
    /\ StitchThrow("visual component failed")
    /\ UNCHANGED <<status, progress, error_message, output_folder, storeVars,
                   edgeVars, SEGMENT_COUNT, si, sattempts, duration, audioOnDisk,
                   videoFiles, audioFiles, workDir>>
    /\ UNCHANGED auxVars

\* script.js:191-193
SVisFailLog ==
    /\ spc = "s_vis_fail_log"
    /\ StitchLogWrite(<<"st_visual_failed", si>>)
    /\ StitchNextSegment
    /\ UNCHANGED <<status, progress, error_message, output_folder, storeVars,
                   edgeVars, SEGMENT_COUNT, sattempts, videoFiles, audioFiles,
                   workDir>>
    /\ UNCHANGED auxVars

SMergeLog ==
    /\ spc = "s_merge_log"
    /\ StitchLogWrite(<<"st_merging", 0>>)
    /\ spc' = "s_merge"
    /\ UNCHANGED <<status, progress, error_message, output_folder, storeVars,
                   edgeVars, SEGMENT_COUNT, si, sattempts, duration, audioOnDisk,
                   videoFiles, audioFiles, workDir, serr>>
    /\ UNCHANGED auxVars

\* script.js:202-232  the concat run of ffmpeg
Merge ==
    /\ spc = "s_merge"
    /\ \/ spc' = "s_upload_log" /\ UNCHANGED serr
       \/ StitchThrow("ffmpeg merge failed")
    /\ UNCHANGED <<rowVars, storeVars, edgeVars, SEGMENT_COUNT, si, sattempts,
                   duration, audioOnDisk, videoFiles, audioFiles, workDir, slog>>
    /\ UNCHANGED auxVars

SUploadLog ==
    /\ spc = "s_upload_log"
    /\ StitchLogWrite(<<"st_uploading", 0>>)
    /\ spc' = "s_upload"
    /\ UNCHANGED <<status, progress, error_message, output_folder, storeVars,
                   edgeVars, SEGMENT_COUNT, si, sattempts, duration, audioOnDisk,
                   videoFiles, audioFiles, workDir, serr>>
    /\ UNCHANGED auxVars

\* script.js:236-242  upload() resolves to {data, error}; the script does not
\* look at it
UploadFinal ==
    /\ spc = "s_upload"
    /\ \/ stFinal' = TRUE
       \/ UNCHANGED stFinal
    /\ spc' = "s_ready_log"
    /\ UNCHANGED <<rowVars, stAudio, stImages, edgeVars, SEGMENT_COUNT, si,
                   sattempts, duration, audioOnDisk, videoFiles, audioFiles,
                   workDir, slog, serr>>
    /\ UNCHANGED auxVars

SReadyLog ==
    /\ spc = "s_ready_log"
    /\ StitchLogWrite(<<"st_ready", 0>>)
    /\ spc' = "s_complete"
    /\ UNCHANGED <<status, progress, error_message, output_folder, storeVars,
                   edgeVars, SEGMENT_COUNT, si, sattempts, duration, audioOnDisk,
                   videoFiles, audioFiles, workDir, serr>>
    /\ UNCHANGED auxVars

\* script.js:245-249, then the finally block (255-259) removes the work directory
SComplete ==
    /\ spc = "s_complete"
    /\ status' = "complete"
    /\ progress' = 100
    /\ output_folder' = "job"
    /\ workDir' = FALSE
    /\ spc' = "exited"
    /\ UNCHANGED <<error_message, logs, storeVars, edgeVars, SEGMENT_COUNT, si,
                   sattempts, duration, audioOnDisk, videoFiles, audioFiles, slog,
                   serr>>
    /\ UNCHANGED auxVars

\* script.js:252
SCritLog ==
    /\ spc = "s_crit_log"
    /\ StitchLogWrite(<<"st_critical", 0>>)
    /\ spc' = "s_error"
    /\ UNCHANGED <<status, progress, error_message, output_folder, storeVars,
                   edgeVars, SEGMENT_COUNT, si, sattempts, duration, audioOnDisk,
                   videoFiles, audioFiles, workDir, serr>>
    /\ UNCHANGED auxVars

\* script.js:253-254  the update, then process.exit(1) inside the catch block
SError ==
    /\ spc = "s_error"
    /\ status' = "error"
    /\ error_message' = serr
    /\ spc' = "exited"
    /\ UNCHANGED <<progress, output_folder, logs, storeVars, edgeVars,
                   SEGMENT_COUNT, si, sattempts, duration, audioOnDisk, videoFiles,
                   audioFiles, workDir, slog, serr>>
    /\ UNCHANGED auxVars

StitchNext ==
    \/ StitchStart \/ StitchLogRead \/ SStartLog \/ SStatus \/ SPrepLog
    \/ DownloadAudio \/ SAudioMissLog \/ ProbeAudio \/ SSegLog \/ DownloadImage
    \/ SEncLog \/ Encode \/ SProgress \/ SVisFailLog \/ SMergeLog \/ Merge
    \/ SUploadLog \/ UploadFinal \/ SReadyLog \/ SComplete \/ SCritLog \/ SError

\* ---- webapp: POST /api/submit (route.ts:9-61) ----
RequestIds == 1..MaxPosts

\* a request body: whether req.json() parses it, and which of the three fields
\* are there and truthy (route.ts:11-14)
NoBody == [parses |-> FALSE, script |-> FALSE, voice_name |-> FALSE,
           segment_count |-> FALSE]
WebBodies == {NoBody} \cup [parses : {TRUE}, script : BOOLEAN, voice_name : BOOLEAN,
                             segment_count : BOOLEAN]

NoResponse == [code |-> 0, success |-> FALSE, job_id |-> 0]

\* route.ts:14  the test of the three fields
MissingField(b) == ~b.script \/ ~b.voice_name \/ ~b.segment_count

\* WebPost as it would be if the test left segment_count out
WebPostWithoutCountTest(r) ==
    /\ wpc[r] = "idle"
    /\ \E b \in WebBodies :
          /\ wbody' = [wbody EXCEPT ![r] = b]
          /\ IF ~b.parses
               THEN /\ wresp' = [wresp EXCEPT ![r] = [code |-> 500, success |-> FALSE, job_id |-> 0]]
                    /\ wpc' = [wpc EXCEPT ![r] = "done"]
               ELSE IF ~b.script \/ ~b.voice_name
                      THEN /\ wresp' = [wresp EXCEPT ![r] = [code |-> 400, success |-> FALSE, job_id |-> 0]]
                           /\ wpc' = [wpc EXCEPT ![r] = "done"]
                      ELSE /\ wpc' = [wpc EXCEPT ![r] = "insert"]
                           /\ UNCHANGED wresp
    /\ UNCHANGED <<webOthers, wrows, wtrig>>

\* route.ts:11-16 and 57-60: the body is read and tested; then the insert is sent
WebPost(r) ==
    /\ wpc[r] = "idle"
    /\ \E b \in WebBodies :
          /\ wbody' = [wbody EXCEPT ![r] = b]
          /\ IF ~b.parses
               THEN /\ wresp' = [wresp EXCEPT ![r] = [code |-> 500, success |-> FALSE, job_id |-> 0]]
                    /\ wpc' = [wpc EXCEPT ![r] = "done"]
               ELSE IF MissingField(b)
                      THEN /\ wresp' = [wresp EXCEPT ![r] = [code |-> 400, success |-> FALSE, job_id |-> 0]]
                           /\ wpc' = [wpc EXCEPT ![r] = "done"]
                      ELSE /\ wpc' = [wpc EXCEPT ![r] = "insert"]
                           /\ UNCHANGED wresp
    /\ UNCHANGED <<webOthers, wrows, wtrig>>

\* WebInsert as it would be if the trigger were awaited and sent again on return
WebInsertTwice(r) ==
    /\ wpc[r] = "insert"
    /\ wrows' = Append(wrows, [by |-> r, status |-> "pending", progress |-> 0])
    /\ wtrig' = wtrig \o <<[by |-> r, job_id |-> Len(wrows) + 1, outcome |-> "sent"],
                           [by |-> r, job_id |-> Len(wrows) + 1, outcome |-> "sent"]>>
    /\ wresp' = [wresp EXCEPT ![r] = [code |-> 200, success |-> TRUE,
                                      job_id |-> Len(wrows) + 1]]
    /\ wpc' = [wpc EXCEPT ![r] = "done"]
    /\ UNCHANGED <<webOthers, wbody>>

\* route.ts:19-56: the insert returns.  With a row, fetch() is called and not
\* awaited and the response is returned in the same turn; without one, 500.
WebInsert(r) ==
    /\ wpc[r] = "insert"
    /\ \/ /\ wrows' = Append(wrows, [by |-> r, status |-> "pending", progress |-> 0])
          /\ wtrig' = Append(wtrig, [by |-> r, job_id |-> Len(wrows) + 1,
                                     outcome |-> "sent"])
          /\ wresp' = [wresp EXCEPT ![r] = [code |-> 200, success |-> TRUE,
                                            job_id |-> Len(wrows) + 1]]
       \/ /\ wresp' = [wresp EXCEPT ![r] = [code |-> 500, success |-> FALSE, job_id |-> 0]]
          /\ UNCHANGED <<wrows, wtrig>>
    /\ wpc' = [wpc EXCEPT ![r] = "done"]
    /\ UNCHANGED <<webOthers, wbody>>

\* route.ts:40-54: the promise of fetch() settles; a rejection is logged by catch
WebTriggerSettles ==
    /\ \E k \in 1..Len(wtrig) :
          /\ wtrig[k].outcome = "sent"
          /\ \E o \in {"answered", "failed"} :
                wtrig' = [wtrig EXCEPT ![k].outcome = o]
    /\ UNCHANGED <<webOthers, wpc, wbody, wresp, wrows>>

WebNext ==
    \/ \E r \in RequestIds : WebPost(r)
    \/ \E r \in RequestIds : WebInsert(r)
    \/ WebTriggerSettles

\* no request to the web application yet
WebInit ==
    /\ wpc = [r \in RequestIds |-> "idle"]
    /\ wbody = [r \in RequestIds |-> NoBody]
    /\ wresp = [r \in RequestIds |-> NoResponse]
    /\ wrows = <<>>
    /\ wtrig = <<>>

\* ---- stitcher service: POST /stitch (index.js:87-273) ----
SvcRequests == 1..MaxStitch
SvcJobs == 1..MaxStitch

\* index.js:81-84  updateJob of the service
SvcUpdate(r, st, pr, msg) ==
    vrow' = [vrow EXCEPT ![vjob[r]] = [status |-> st, progress |-> pr, error_message |-> msg]]

\* index.js:265-272  finally: the work directory of the job is removed
SvcCleanup(r) ==
    /\ vdirs' = vdirs \ {vjob[r]}
    /\ vpc' = [vpc EXCEPT ![r] = "done"]

\* a step that reads or writes files of the work directory can succeed only
\* while the directory is there
SvcDirThere(r) == vjob[r] \in vdirs

\* index.js:88-102  the body is tested, the response is sent, the work directory
\* is made; the first await is the update at 102
SvcStitch(r) ==
    /\ vpc[r] = "idle"
    /\ \/ /\ vpc' = [vpc EXCEPT ![r] = "done"]
          /\ UNCHANGED <<vjob, vcount, vdirs>>
       \/ \E j \in SvcJobs, n \in 1..MaxSvcSeg :
             /\ vjob' = [vjob EXCEPT ![r] = j]
             /\ vcount' = [vcount EXCEPT ![r] = n]
             /\ vdirs' = vdirs \cup {j}
             /\ vpc' = [vpc EXCEPT ![r] = "status"]
    /\ UNCHANGED <<svcOthers, vi, vvideo, vaudio, vrow>>

\* index.js:102
SvcStatus(r) ==
    /\ vpc[r] = "status"
    /\ SvcUpdate(r, "stitching", 96, vrow[vjob[r]].error_message)
    /\ vi' = [vi EXCEPT ![r] = 1]
    /\ vpc' = [vpc EXCEPT ![r] = "dl_video"]
    /\ UNCHANGED <<svcOthers, vjob, vcount, vvideo, vaudio, vdirs>>

\* index.js:117-122
SvcDownloadVideo(r) ==
    /\ vpc[r] = "dl_video"
    /\ \/ /\ SvcDirThere(r)
          /\ vvideo' = [vvideo EXCEPT ![r] = @ \cup {vi[r]}]
       \/ UNCHANGED vvideo
    /\ vpc' = [vpc EXCEPT ![r] = "dl_audio"]
    /\ UNCHANGED <<svcOthers, vjob, vcount, vi, vaudio, vdirs, vrow>>

\* index.js:124-130, then i++ and the loop test, then the test at 132
SvcDownloadAudio(r) ==
    /\ vpc[r] = "dl_audio"
    /\ \/ /\ SvcDirThere(r)
          /\ vaudio' = [vaudio EXCEPT ![r] = @ \cup {vi[r]}]
       \/ UNCHANGED vaudio
    /\ vi' = [vi EXCEPT ![r] = @ + 1]
    /\ vpc' = [vpc EXCEPT ![r] = IF vi[r] < vcount[r] THEN "dl_video"
                                 ELSE IF vvideo[r] = {} THEN "no_video"
                                 ELSE "concat_video"]
    /\ UNCHANGED <<svcOthers, vjob, vcount, vvideo, vdirs, vrow>>

\* index.js:132-135  no video: error, return, finally
SvcNoVideo(r) ==
    /\ vpc[r] = "no_video"
    /\ SvcUpdate(r, "error", vrow[vjob[r]].progress, "No video segments found to stitch")
    /\ SvcCleanup(r)
    /\ UNCHANGED <<svcOthers, vjob, vcount, vi, vvideo, vaudio>>

\* one awaited run of ffmpeg or ffprobe at position `at`: it succeeds and the
\* work goes on at `next`, or it rejects and the catch block at 259 is next
SvcFfmpeg(r, at, next) ==
    /\ vpc[r] = at
    /\ \/ /\ SvcDirThere(r)
          /\ vpc' = [vpc EXCEPT ![r] = next]
       \/ vpc' = [vpc EXCEPT ![r] = "catch"]
    /\ UNCHANGED <<svcOthers, vjob, vcount, vi, vvideo, vaudio, vdirs, vrow>>

\* index.js:139-152
SvcConcatVideo(r) ==
    SvcFfmpeg(r, "concat_video", IF vaudio[r] # {} THEN "concat_audio" ELSE "probe")

\* index.js:155-171
SvcConcatAudio(r) == SvcFfmpeg(r, "concat_audio", "probe")

\* index.js:174-181  the two durations; with a voiceover they may differ by more
\* than 0.5 s, and then the speed is adjusted
SvcProbe(r) ==
    \/ SvcFfmpeg(r, "probe", "mix")
    \/ vaudio[r] # {} /\ SvcFfmpeg(r, "probe", "adjust")

\* index.js:182-200
SvcAdjust(r) == SvcFfmpeg(r, "adjust", "mix")

\* index.js:204-238  the mix, or the copy when there is no voiceover
SvcMix(r) == SvcFfmpeg(r, "mix", "upload")

\* index.js:240-246  the upload resolves with or without uploadError, or throws
SvcUpload(r) ==
    /\ vpc[r] = "upload"
    /\ \E next \in {"complete", "upload_err", "catch"} :
          vpc' = [vpc EXCEPT ![r] = next]
    /\ UNCHANGED <<svcOthers, vjob, vcount, vi, vvideo, vaudio, vdirs, vrow>>

\* index.js:247-249, then finally
SvcUploadError(r) ==
    /\ vpc[r] = "upload_err"
    /\ SvcUpdate(r, "error", vrow[vjob[r]].progress, "Upload failed")
    /\ SvcCleanup(r)
    /\ UNCHANGED <<svcOthers, vjob, vcount, vi, vvideo, vaudio>>

\* index.js:252-257, then finally
SvcComplete(r) ==
    /\ vpc[r] = "complete"
    /\ SvcUpdate(r, "complete", 100, vrow[vjob[r]].error_message)
    /\ SvcCleanup(r)
    /\ UNCHANGED <<svcOthers, vjob, vcount, vi, vvideo, vaudio>>

\* index.js:259-264, then finally
SvcCatch(r) ==
    /\ vpc[r] = "catch"
    /\ SvcUpdate(r, "error", vrow[vjob[r]].progress, "Stitching failed")
    /\ SvcCleanup(r)
    /\ UNCHANGED <<svcOthers, vjob, vcount, vi, vvideo, vaudio>>

SvcNext ==
    \E r \in SvcRequests :
       \/ SvcStitch(r) \/ SvcStatus(r) \/ SvcDownloadVideo(r) \/ SvcDownloadAudio(r)
       \/ SvcNoVideo(r) \/ SvcConcatVideo(r) \/ SvcConcatAudio(r) \/ SvcProbe(r)
       \/ SvcAdjust(r) \/ SvcMix(r) \/ SvcUpload(r) \/ SvcUploadError(r)
       \/ SvcComplete(r) \/ SvcCatch(r)

\* the service is up and no request has arrived; the jobs are as the pipeline
\* that calls the service leaves them (part_004:351)
SvcInit ==
    /\ vpc = [r \in SvcRequests |-> "idle"]
    /\ vjob = [r \in SvcRequests |-> 1]
    /\ vcount = [r \in SvcRequests |-> 0]
    /\ vi = [r \in SvcRequests |-> 0]
    /\ vvideo = [r \in SvcRequests |-> {}]
    /\ vaudio = [r \in SvcRequests |-> {}]
    /\ vdirs = {}
    /\ vrow = [j \in SvcJobs |-> [status |-> "stitching", progress |-> 92, error_message |-> ""]]


\* ---- the writes of progress over one job, in program order ----
\* Every updateJob of index.ts and of the Ken Burns stitcher that writes
\* progress or status, with the loops of generateImages and of the stitcher
\* run over every count up to MaxSegmentCount; a segment that fails writes
\* nothing, and a step that throws ends in the write of status 'error'.
ProgWrite(at, next, st, pr) ==
    /\ gpc = at
    /\ gpc' = next
    /\ gstatus' = st
    /\ gprogress' = pr
    /\ UNCHANGED <<progOthers, gcount>>

\* index.ts:497  the edge function is called and takes the count of the job
ProgStart ==
    /\ gpc = "idle"
    /\ gpc' = "jsons"
    /\ gcount' \in 1..MaxSegmentCount
    /\ UNCHANGED <<progOthers, gi, gstatus, gprogress>>

\* index.ts:213
ProgJsons == ProgWrite("jsons", "save", "generating_jsons", 5) /\ UNCHANGED gi
\* index.ts:334-338
ProgSave == ProgWrite("save", "voice", gstatus, 10) /\ UNCHANGED gi
\* index.ts:352
ProgVoice == ProgWrite("voice", "voice_end", "generating_voice", 35) /\ UNCHANGED gi
\* index.ts:395
ProgVoiceEnd == ProgWrite("voice_end", "images", gstatus, 40) /\ UNCHANGED gi
\* index.ts:439
ProgImages == ProgWrite("images", "image", "generating_images", 40) /\ gi' = 0

\* index.ts:447-477  one pass of the loop over the keys: the image is stored and
\* progress written (470), or the segment fails and nothing is written
ProgImage ==
    /\ gpc = "image"
    /\ gi < gcount
    /\ gi' = gi + 1
    /\ \/ gprogress' = ImgProgressValue(gi + 1, gcount)
       \/ UNCHANGED gprogress
    /\ UNCHANGED <<progOthers, gpc, gcount, gstatus>>

\* index.ts:427  after the loop the dispatch is sent and accepted
ProgStitching ==
    /\ gi = gcount
    /\ ProgWrite("image", "stitcher", "stitching", 70)
    /\ UNCHANGED gi

\* script.js:107
ProgStitcher == ProgWrite("stitcher", "segment", "stitching", 75) /\ gi' = 1

\* script.js:113-195  one pass of the stitcher's loop, i from 1: the clip is
\* made and progress written (190), or the segment is skipped
ProgSegment ==
    /\ gpc = "segment"
    /\ gi <= gcount
    /\ gi' = gi + 1
    /\ \/ gprogress' = StitchProgressValue(gi, gcount)
       \/ UNCHANGED gprogress
    /\ UNCHANGED <<progOthers, gpc, gcount, gstatus>>

\* script.js:245-249
ProgComplete ==
    /\ gi > gcount
    /\ ProgWrite("segment", "end", "complete", 100)
    /\ UNCHANGED gi

\* index.ts:509-513 and script.js:251-254: a step throws and status 'error' is
\* written, progress is not in the update
ProgError ==
    /\ gpc \notin {"idle", "end"}
    /\ ProgWrite(gpc, "end", "error", gprogress)
    /\ UNCHANGED gi

ProgNext ==
    \/ ProgStart \/ ProgJsons \/ ProgSave \/ ProgVoice \/ ProgVoiceEnd \/ ProgImages \/ ProgImage
    \/ ProgStitching \/ ProgStitcher \/ ProgSegment \/ ProgComplete \/ ProgError

\* the row as the submit route inserts it (route.ts:24-25)
ProgInit ==
    /\ gpc = "idle"
    /\ gcount = 0
    /\ gi = 0
    /\ gstatus = "pending"
    /\ gprogress = 0

\* ---- speed matching (index.js:173-201, script.js:446-472) ----
\* durations in quarters of a second
Durations == 0..MaxQuarter
\* index.js:181, script.js:454  0.5 s, in quarters
HalfSecond == 2

Micro == 1000000
\* a number as toFixed(6) prints it, in millionths; div by zero gives Infinity
NoNumber == [inf |-> FALSE, micro |-> 0]
Infinite == [inf |-> TRUE, micro |-> 0]

ToFixed6Truncating(num, den) ==
    IF den = 0 THEN Infinite
    ELSE [inf |-> FALSE, micro |-> (num * Micro) \div den]

\* (num/den).toFixed(6): the nearest multiple of 0.000001, the larger of two
ToFixed6(num, den) ==
    IF den = 0 THEN Infinite
    ELSE [inf |-> FALSE, micro |-> ((2 * num * Micro) + den) \div (2 * den)]

Abs(x) == IF x < 0 THEN 0 - x ELSE x

\* index.js:181, script.js:454  Math.abs(videoDuration - audioDuration) > 0.5 && concatAudioPath
NeedsAdjust(v, a, voice) == Abs(v - a) > HalfSecond /\ voice

\* index.js:188, script.js:460  setpts=PTS*${(1 / speedFactor).toFixed(6)}
PtsFilter(v, a) == ToFixed6(a, v)

\* index.js:189-191, script.js:461-463  speedFactor > 2 ? atempo=2.0,atempo=(speedFactor/2) : atempo=speedFactor
AtempoFilter(v, a) ==
    IF v > 2 * a
      THEN <<[inf |-> FALSE, micro |-> 2 * Micro], ToFixed6(v, 2 * a)>>
      ELSE <<ToFixed6(v, a)>>

\* index.js:174-175, script.js:447-448  the durations of the concatenated video
\* and of the voiceover; without a voiceover audioDuration is videoDuration
SpeedProbe ==
    /\ mpc = "probe"
    /\ \E v \in Durations, voice \in BOOLEAN :
          /\ mvideo' = v
          /\ mvoice' = voice
          /\ maudio' \in (IF voice THEN Durations ELSE {v})
    /\ mpc' = "adjust"
    /\ UNCHANGED <<speedOthers, madjusted, mpts, matempo>>

\* index.js:180-201, script.js:453-472
SpeedAdjust ==
    /\ mpc = "adjust"
    /\ IF NeedsAdjust(mvideo, maudio, mvoice)
         THEN /\ madjusted' = TRUE
              /\ mpts' = PtsFilter(mvideo, maudio)
              /\ matempo' = AtempoFilter(mvideo, maudio)
         ELSE UNCHANGED <<madjusted, mpts, matempo>>
    /\ mpc' = "mix"
    /\ UNCHANGED <<speedOthers, mvideo, maudio, mvoice>>

SpeedNext == SpeedProbe \/ SpeedAdjust

SpeedInit ==
    /\ mpc = "probe"
    /\ mvideo = 0
    /\ maudio = 0
    /\ mvoice = FALSE
    /\ madjusted = FALSE
    /\ mpts = NoNumber
    /\ matempo = <<>>

\* ---- qwenSpaceTTS: the result stream (index.ts:137-207) ----
\* The lines a stream is made of, by what the parser tells apart: an event line
\* naming error or another event; a data line that is null, an object with
\* error or msg, an object with an audio URL, another object, or text that
\* JSON.parse rejects. One read delivers one line.
StreamLines == {"event_error", "event_other", "data_null", "data_errobj",
                "data_url", "data_object", "data_junk"}

RECURSIVE StreamsOfLength(_)
StreamsOfLength(n) ==
    IF n = 0 THEN {<<>>}
    ELSE {Append(s, l) : s \in StreamsOfLength(n - 1), l \in StreamLines}

Streams == UNION {StreamsOfLength(n) : n \in 0..MaxLines}

\* index.ts:128-135  the poll request was answered and the reader taken
TtsOpen ==
    /\ xpc = "idle"
    /\ xstream' \in Streams
    /\ xpc' = "read"
    /\ UNCHANGED <<ttsOthers, xseen, xlast, xnull, xurl, xerr>>

TtsThrow(msg) == xpc' = "thrown" /\ xerr' = msg

\* index.ts:161-190  the data line `line` under the event type `last`, as the
\* code of index.ts treats it
TtsDataLine(line, last) ==
    CASE line = "data_null" ->
            UNCHANGED <<xpc, xnull, xurl, xerr>>
      [] line = "data_junk" ->
            UNCHANGED <<xpc, xnull, xurl, xerr>>
      [] line = "data_errobj" ->
            /\ xnull' = FALSE
            /\ TtsThrow("TTS Space error")
            /\ UNCHANGED xurl
      [] line \in {"data_url", "data_object"} /\ last = "error" ->
            /\ xnull' = FALSE
            /\ TtsThrow("TTS Space error")
            /\ UNCHANGED xurl
      [] line = "data_url" /\ last # "error" ->
            /\ xnull' = FALSE
            /\ xurl' = TRUE
            /\ xpc' = "download"
            /\ UNCHANGED xerr
      [] line = "data_object" /\ last # "error" ->
            /\ xnull' = FALSE
            /\ UNCHANGED <<xpc, xurl, xerr>>

\* part_006:113-121  the backup of the parser throws on null under event error
TtsDataLineBackup(line, last) ==
    IF line = "data_null" /\ last = "error"
      THEN TtsThrow("TTS Space returned error") /\ UNCHANGED <<xnull, xurl>>
      ELSE TtsDataLine(line, last)

\* index.ts:153-192  one read that delivers a line
TtsRead ==
    /\ xpc = "read"
    /\ xstream # <<>>
    /\ xstream' = Tail(xstream)
    /\ xseen' = Append(xseen, Head(xstream))
    /\ LET line == Head(xstream) IN
          IF line \in {"event_error", "event_other"}
            THEN /\ xlast' = (IF line = "event_error" THEN "error" ELSE "other")
                 /\ UNCHANGED <<xpc, xnull, xurl, xerr>>
            ELSE /\ TtsDataLine(line, xlast)
                 /\ UNCHANGED xlast
    /\ UNCHANGED ttsOthers

\* index.ts:154-155 with 194-200  the stream is done and no URL was found
TtsDone ==
    /\ xpc = "read"
    /\ xstream = <<>>
    /\ TtsThrow(IF xnull THEN "TTS Space returned no audio" ELSE "Audio URL not found")
    /\ UNCHANGED <<ttsOthers, xstream, xseen, xlast, xnull, xurl>>

\* index.ts:203-207  the audio is fetched
TtsDownload ==
    /\ xpc = "download"
    /\ \/ xpc' = "returned" /\ UNCHANGED xerr
       \/ TtsThrow("Audio download failed")
    /\ UNCHANGED <<ttsOthers, xstream, xseen, xlast, xnull, xurl>>

TtsNext == TtsOpen \/ TtsRead \/ TtsDone \/ TtsDownload

TtsInit ==
    /\ xpc = "idle"
    /\ xstream = <<>>
    /\ xseen = <<>>
    /\ xlast = ""
    /\ xnull = TRUE
    /\ xurl = FALSE
    /\ xerr = ""

\* ---- withRetry (index.ts:44-63) ----
\* the errors fn can throw
FnErrors == {"timeout", "refused"}
NoError == "none"

\* withRetry is called; every caller passes retries = 5, smaller values are
\* taken as well
RetryStart ==
    /\ rpc = "idle"
    /\ rretries' \in 0..Retries
    /\ ri' = 0
    /\ rpc' = "call"
    /\ UNCHANGED <<retryOthers, rcalls, rerrs, rnotified, rthrown>>

\* index.ts:52-60  what follows a call of fn that threw `e` when onRetry is
\* started under the test `notify`
RetryCatch(e, notify) ==
    /\ rerrs' = Append(rerrs, e)
    /\ IF notify
         THEN /\ rnotified' = Append(rnotified, ri + 1)
              /\ rpc' = "sleep"
              /\ UNCHANGED <<ri, rthrown>>
         ELSE /\ ri' = ri + 1
              /\ rpc' = "thrown"
              /\ rthrown' = e
              /\ UNCHANGED rnotified

RetryCallNotifiesLast ==
    /\ rpc = "call"
    /\ ri <= rretries
    /\ rcalls' = rcalls + 1
    /\ \/ rpc' = "returned" /\ UNCHANGED <<ri, rerrs, rnotified, rthrown>>
       \/ \E e \in FnErrors :
             IF ri < rretries
               THEN RetryCatch(e, TRUE)
               ELSE /\ rerrs' = Append(rerrs, e)
                    /\ rnotified' = Append(rnotified, ri + 1)
                    /\ ri' = ri + 1
                    /\ rpc' = "thrown"
                    /\ rthrown' = e
    /\ UNCHANGED <<retryOthers, rretries>>

\* index.ts:51-57  one pass of the loop up to the sleep: fn is awaited and
\* returns, or throws; after the last pass the loop ends and lastError is thrown
RetryCall ==
    /\ rpc = "call"
    /\ ri <= rretries
    /\ rcalls' = rcalls + 1
    /\ \/ rpc' = "returned" /\ UNCHANGED <<ri, rerrs, rnotified, rthrown>>
       \/ \E e \in FnErrors : RetryCatch(e, ri < rretries)
    /\ UNCHANGED <<retryOthers, rretries>>

\* index.ts:58  the sleep is over, i++
RetrySleep ==
    /\ rpc = "sleep"
    /\ ri' = ri + 1
    /\ rpc' = "call"
    /\ UNCHANGED <<retryOthers, rretries, rcalls, rerrs, rnotified, rthrown>>

RetryNext == RetryStart \/ RetryCall \/ RetrySleep

RetryInit ==
    /\ rpc = "idle"
    /\ rretries = 0
    /\ ri = 0
    /\ rcalls = 0
    /\ rerrs = <<>>
    /\ rnotified = <<>>
    /\ rthrown = NoError

\* ---- Ken Burns filter of one clip (script.js:139-155) ----
\* script.js:139
motions == <<"zoom_in", "zoom_out", "pan_right", "pan_left">>
\* script.js:141
Fps == 30
\* script.js:145  scale=3840:2160,...,crop=3840:2160: the width zoompan is given
Iw == 3840
\* script.js:152, 154  z=1.3, as a fraction
ZoomNum == 13
ZoomDen == 10

\* script.js:129-132  the default of 6 s, or what ffprobe reports
ClipDurationsMs == (0..MaxClipMs) \cup {DefaultDuration * 1000}

\* Math.ceil(num / den) for num >= 0, den > 0
Ceil(num, den) == (num + den - 1) \div den

TotalFramesUnfloored(ms) == Ceil(ms * Fps, 1000)

\* script.js:142  Math.max(Math.ceil(duration * fps), 2)
TotalFrames(ms) ==
    LET c == Ceil(ms * Fps, 1000) IN IF c > 2 THEN c ELSE 2

\* script.js:140  motions[(i - 1) % motions.length]
Style(i) == motions[((i - 1) % Len(motions)) + 1]

\* iw - iw/zoom as a fraction: Iw * (ZoomNum - ZoomDen) / ZoomNum
\* script.js:152  x = ((iw-(iw/zoom))/totalFrames)*n
PanRightX(t, n) == [num |-> Iw * (ZoomNum - ZoomDen) * n, den |-> ZoomNum * t]
\* script.js:154  x = (iw-(iw/zoom)) - ((iw-(iw/zoom))/totalFrames)*n
PanLeftX(t, n) == [num |-> Iw * (ZoomNum - ZoomDen) * (t - n), den |-> ZoomNum * t]

NoOffset == [num |-> 0, den |-> 1]

\* script.js:139-142  the style and the frame count of segment i
KenSegment ==
    /\ kpc = "idle"
    /\ \E i \in 1..MaxClipSeg, ms \in ClipDurationsMs :
          /\ ki' = i
          /\ kms' = ms
          /\ kstyle' = Style(i)
          /\ kframes' = TotalFrames(ms)
    /\ kpc' = "filter"
    /\ UNCHANGED <<kenOthers, kn, kx>>

\* script.js:147-155  the zoom styles keep the window centred; the pan styles
\* give frame n its offset, n from 0
KenFirstFrame ==
    /\ kpc = "filter"
    /\ IF kstyle \in {"pan_right", "pan_left"}
         THEN /\ kpc' = "frame"
              /\ kn' = 0
              /\ kx' = IF kstyle = "pan_right" THEN PanRightX(kframes, 0)
                       ELSE PanLeftX(kframes, 0)
         ELSE /\ kpc' = "encoded"
              /\ UNCHANGED <<kn, kx>>
    /\ UNCHANGED <<kenOthers, ki, kms, kstyle, kframes>>

\* the next frame of the clip, up to totalFrames - 1
KenFrame ==
    /\ kpc = "frame"
    /\ IF kn + 1 < kframes
         THEN /\ kn' = kn + 1
              /\ kx' = IF kstyle = "pan_right" THEN PanRightX(kframes, kn + 1)
                       ELSE PanLeftX(kframes, kn + 1)
              /\ UNCHANGED kpc
         ELSE /\ kpc' = "encoded"
              /\ UNCHANGED <<kn, kx>>
    /\ UNCHANGED <<kenOthers, ki, kms, kstyle, kframes>>

KenNext == KenSegment \/ KenFirstFrame \/ KenFrame

KenInit ==
    /\ kpc = "idle"
    /\ ki = 0
    /\ kms = 0
    /\ kstyle = ""
    /\ kframes = 0
    /\ kn = 0
    /\ kx = NoOffset

\* ---- the progress tracker of the job page (page.tsx:6-36, 267-268) ----
\* page.tsx:6-13  the keys of PIPELINE_STEPS
PIPELINE_STEPS == <<"pending", "generating_jsons", "generating_voice",
                    "generating_images", "stitching", "complete">>

\* Array.prototype.indexOf, 0-based, -1 when the value is not in the array
IndexOf(arr, x) ==
    IF \E k \in 1..Len(arr) : arr[k] = x
      THEN (CHOOSE k \in 1..Len(arr) : arr[k] = x) - 1
      ELSE 0 - 1

\* page.tsx:27-36
getStepState(jobStatus, stepKey) ==
    LET currentIdx == IndexOf(PIPELINE_STEPS, jobStatus)
        stepIdx == IndexOf(PIPELINE_STEPS, stepKey)
    IN  IF jobStatus = "error"
          THEN IF stepIdx < currentIdx THEN "done"
               ELSE IF stepIdx = currentIdx THEN "error" ELSE "pending"
        ELSE IF stepKey = "complete" /\ jobStatus = "complete" THEN "done"
        ELSE IF stepIdx < currentIdx THEN "done"
        ELSE IF stepIdx = currentIdx THEN "active"
        ELSE "pending"

NotShown == "none"
PageJobs == 1..MaxPageJobs

\* a writer of the row moves the status of a job on in the order of the enum
\* (setup.sql status CHECK); complete and error are final
UiJobAdvances(j) ==
    /\ ujob[j] \notin {"complete", "error"}
    /\ \E k \in (Rank(ujob[j]) + 1)..Len(StatusOrder) :
          ujob' = [ujob EXCEPT ![j] = StatusOrder[k]]
    /\ UNCHANGED <<uiOthers, ufailed, uselected, ushown, ushownFailed, ustates>>

\* a step fails and the row gets status error (index.ts:39-42, script.js:253)
UiJobFails(j) ==
    /\ ujob[j] \notin {"complete", "error"}
    /\ ufailed' = [ufailed EXCEPT ![j] = ujob[j]]
    /\ ujob' = [ujob EXCEPT ![j] = "error"]
    /\ UNCHANGED <<uiOthers, uselected, ushown, ushownFailed, ustates>>

\* page.tsx:267-268  the tracker of the selected job is rendered
UiRender(j) ==
    /\ ushown' = ujob[j]
    /\ ushownFailed' = ufailed[j]
    /\ ustates' = [k \in 1..Len(PIPELINE_STEPS) |-> getStepState(ujob[j], PIPELINE_STEPS[k])]

\* page.tsx:214  a job of the list is clicked
UiSelect(j) ==
    /\ uselected # j
    /\ uselected' = j
    /\ UiRender(j)
    /\ UNCHANGED <<uiOthers, ujob, ufailed>>

\* page.tsx:70-92  every 3 s the rows are fetched and the selected job replaced
\* by its row
UiFetch ==
    /\ uselected \in PageJobs
    /\ UiRender(uselected)
    /\ <<ushown', ushownFailed'>> # <<ushown, ushownFailed>>
    /\ UNCHANGED <<uiOthers, ujob, ufailed, uselected>>

UiNext ==
    \/ \E j \in PageJobs : UiJobAdvances(j) \/ UiJobFails(j) \/ UiSelect(j)
    \/ UiFetch

\* route.ts:24  the rows as inserted; no job selected
UiInit ==
    /\ ujob = [j \in PageJobs |-> "pending"]
    /\ ufailed = [j \in PageJobs |-> NotShown]
    /\ uselected = 0
    /\ ushown = NotShown
    /\ ushownFailed = NotShown
    /\ ustates = [k \in 1..Len(PIPELINE_STEPS) |-> "pending"]

\* ---- stitcher script with image fallback (script.js:264-544) ----
GhaStay == <<acount, ai, ahasVideo, aclips, aaudio, adir, arow, afinal, aerr>>

\* script.js:332-335  updateJob
GhaUpdate(st, pr, msg) == arow' = [status |-> st, progress |-> pr, error_message |-> msg]

\* an exception reaches the catch of main (script.js:526)
GhaThrow(msg) == apc' = "catch" /\ aerr' = msg

\* script.js:282-287 and 344-346  the environment is read; without it the
\* script exits at once; otherwise the work directory is made
GhaStart ==
    /\ apc = "idle"
    /\ \/ /\ apc' = "exited"
          /\ UNCHANGED <<acount, adir>>
       \/ /\ acount' \in 1..MaxGhaSeg
          /\ adir' = TRUE
          /\ apc' = "status"
    /\ UNCHANGED <<ghaOthers, ai, ahasVideo, aclips, aaudio, arow, afinal, aerr>>

\* script.js:349
GhaStatus ==
    /\ apc = "status"
    /\ GhaUpdate("stitching", 96, arow.error_message)
    /\ ai' = 1
    /\ apc' = "video"
    /\ UNCHANGED <<ghaOthers, acount, ahasVideo, aclips, aaudio, adir, afinal, aerr>>

\* GhaVideo as it would be without the test of hasVideo at 376
GhaVideoThenFallback ==
    /\ apc = "video"
    /\ \/ /\ aclips' = Append(aclips, <<ai, "video">>)
          /\ ahasVideo' = TRUE
       \/ /\ ahasVideo' = FALSE
          /\ UNCHANGED aclips
    /\ apc' = "image"
    /\ UNCHANGED <<ghaOthers, acount, ai, aaudio, adir, arow, afinal, aerr>>

\* script.js:367-374  the generated video of segment i
GhaVideo ==
    /\ apc = "video"
    /\ \/ /\ aclips' = Append(aclips, <<ai, "video">>)
          /\ ahasVideo' = TRUE
          /\ apc' = "audio"
       \/ /\ ahasVideo' = FALSE
          /\ apc' = "image"
          /\ UNCHANGED aclips
    /\ UNCHANGED <<ghaOthers, acount, ai, aaudio, adir, arow, afinal, aerr>>

\* script.js:376-379  the image of segment i
GhaImage ==
    /\ apc = "image"
    /\ \/ apc' = "slice"
       \/ apc' = "audio"
    /\ UNCHANGED <<ghaOthers, GhaStay>>

\* script.js:380-396  the 5 s clip made from the image
GhaSlice ==
    /\ apc = "slice"
    /\ \/ aclips' = Append(aclips, <<ai, "image">>)
       \/ UNCHANGED aclips
    /\ apc' = "audio"
    /\ UNCHANGED <<ghaOthers, acount, ai, ahasVideo, aaudio, adir, arow, afinal, aerr>>

\* script.js:399-404, then i++, the loop test and the test at 407
GhaAudio ==
    /\ apc = "audio"
    /\ \/ aaudio' = Append(aaudio, ai)
       \/ UNCHANGED aaudio
    /\ ai' = ai + 1
    /\ IF ai < acount
         THEN apc' = "video" /\ UNCHANGED aerr
         ELSE IF aclips = <<>>
           THEN GhaThrow("No video segments found to stitch")
           ELSE apc' = "concat_video" /\ UNCHANGED aerr
    /\ UNCHANGED <<ghaOthers, acount, ahasVideo, aclips, adir, arow, afinal>>

\* one awaited run of ffmpeg or ffprobe at `at`: the run goes on at `next`, or
\* the promise rejects
GhaFfmpeg(at, next) ==
    /\ apc = at
    /\ \/ apc' = next /\ UNCHANGED aerr
       \/ GhaThrow("ffmpeg failed")
    /\ UNCHANGED <<ghaOthers, acount, ai, ahasVideo, aclips, aaudio, adir, arow, afinal>>

\* script.js:412-425
GhaConcatVideo == GhaFfmpeg("concat_video", IF aaudio # <<>> THEN "concat_audio" ELSE "probe")
\* script.js:428-444
GhaConcatAudio == GhaFfmpeg("concat_audio", "probe")
\* script.js:447-454  the durations; with a voiceover they may be 0.5 s apart
GhaProbe ==
    \/ GhaFfmpeg("probe", "mix")
    \/ aaudio # <<>> /\ GhaFfmpeg("probe", "adjust")
\* script.js:455-472
GhaAdjust == GhaFfmpeg("adjust", "mix")
\* script.js:475-502
GhaMix == GhaFfmpeg("mix", "upload")

\* script.js:505-517  the upload; uploadError is thrown
GhaUpload ==
    /\ apc = "upload"
    /\ \/ /\ afinal' = TRUE
          /\ apc' = "complete"
          /\ UNCHANGED aerr
       \/ /\ GhaThrow("Upload failed")
          /\ UNCHANGED afinal
    /\ UNCHANGED <<ghaOthers, acount, ai, ahasVideo, aclips, aaudio, adir, arow>>

\* script.js:520-524 and then the finally block (533-540)
GhaComplete ==
    /\ apc = "complete"
    /\ GhaUpdate("complete", 100, arow.error_message)
    /\ adir' = FALSE
    /\ apc' = "exited"
    /\ UNCHANGED <<ghaOthers, acount, ai, ahasVideo, aclips, aaudio, afinal, aerr>>

\* script.js:526-532  the update, then process.exit(1) inside the catch block:
\* the process ends there and the finally block is not run
GhaCatch ==
    /\ apc = "catch"
    /\ GhaUpdate("error", arow.progress, aerr)
    /\ apc' = "exited"
    /\ UNCHANGED <<ghaOthers, acount, ai, ahasVideo, aclips, aaudio, adir, afinal, aerr>>

GhaNext ==
    \/ GhaStart \/ GhaStatus \/ GhaVideo \/ GhaImage \/ GhaSlice \/ GhaAudio
    \/ GhaConcatVideo \/ GhaConcatAudio \/ GhaProbe \/ GhaAdjust \/ GhaMix
    \/ GhaUpload \/ GhaComplete \/ GhaCatch

\* the workflow run has started; the row is as the pipeline that dispatched it
\* left it (part_003:435)
GhaInit ==
    /\ apc = "idle"
    /\ acount = 0
    /\ ai = 0
    /\ ahasVideo = FALSE
    /\ aclips = <<>>
    /\ aaudio = <<>>
    /\ adir = FALSE
    /\ arow = [status |-> "stitching", progress |-> 92, error_message |-> ""]
    /\ afinal = FALSE
    /\ aerr = ""

\* ---- the Ken Burns stitcher's files and its final merge (script.js:110-232) ----
\* lengths, in seconds, that ffprobe reports for a downloaded voice file
AudioLengths == {4, 8}

AsmStay == <<zcount, zi, zduration, zaudioFiles, zvideoFiles, zoutv, zouta>>

\* script.js:110-113  the run starts with empty lists
AsmStart ==
    /\ zpc = "idle"
    /\ \E n \in 1..MaxMergeSeg : zcount' = n
    /\ zi' = 1
    /\ zpc' = "audio"
    /\ UNCHANGED <<zduration, zaudioFiles, zvideoFiles, zoutv, zouta>>
    /\ UNCHANGED asmOthers

\* script.js:122-132  the voice file is pushed when its download succeeds, and
\* its length becomes the duration of the clip; without it the duration is 6
AsmAudio ==
    /\ zpc = "audio"
    /\ \/ \E len \in AudioLengths :
            /\ zaudioFiles' = Append(zaudioFiles, [seg |-> zi, len |-> len])
            /\ zduration' = len
       \/ /\ zduration' = DefaultDuration
          /\ UNCHANGED zaudioFiles
    /\ zpc' = "clip"
    /\ UNCHANGED <<zcount, zi, zvideoFiles, zoutv, zouta>>
    /\ UNCHANGED asmOthers

\* script.js:113, 196  i++ and the loop test; after the loop the test of videoFiles
AsmNextSegment ==
    IF zi < zcount
      THEN zi' = zi + 1 /\ zpc' = "audio"
      ELSE UNCHANGED zi /\ zpc' = IF zvideoFiles = <<>> THEN "failed" ELSE "merge"

\* script.js:135-193  the clip of `-t duration` seconds is pushed when the image
\* download and the encoding succeed; a failure is logged and the loop goes on
AsmClip ==
    /\ zpc = "clip"
    /\ \/ zvideoFiles' = Append(zvideoFiles, [seg |-> zi, len |-> zduration])
       \/ UNCHANGED zvideoFiles
    /\ AsmNextSegment
    /\ UNCHANGED <<zcount, zduration, zaudioFiles, zoutv, zouta>>
    /\ UNCHANGED asmOthers

\* the sum of the lengths of the first k files of a list
RECURSIVE LengthOfFirst(_, _)
LengthOfFirst(files, k) ==
    IF k = 0 THEN 0 ELSE LengthOfFirst(files, k - 1) + files[k].len

\* ffmpeg's concat filter: the inputs play one after the other, in input order
Concat(files) ==
    [k \in 1..Len(files) |-> [seg |-> files[k].seg, start |-> LengthOfFirst(files, k - 1)]]

\* script.js:206-232  [outv] is the concat of videoFiles, [outa] that of audioFiles
AsmMerge ==
    /\ zpc = "merge"
    /\ zoutv' = Concat(zvideoFiles)
    /\ zouta' = Concat(zaudioFiles)
    /\ zpc' = "merged"
    /\ UNCHANGED <<zcount, zi, zduration, zaudioFiles, zvideoFiles>>
    /\ UNCHANGED asmOthers

AsmNext == AsmStart \/ AsmAudio \/ AsmClip \/ AsmMerge

AsmInit ==
    /\ zpc = "idle"
    /\ zcount = 0
    /\ zi = 0
    /\ zduration = 0
    /\ zaudioFiles = <<>>
    /\ zvideoFiles = <<>>
    /\ zoutv = <<>>
    /\ zouta = <<>>

\* ---- qwenSpaceTTS: the chunks of the result stream (index.ts:153-200) ----
\* reader.read() delivers the bytes in chunks whose ends the network chooses. A
\* chunk is a run of pieces: whole lines, and at its end possibly the head of a
\* line whose tail opens the next chunk.
ChunkedStreams == UNION {StreamsOfLength(n) : n \in 1..MaxChunkLines}

\* the stream with line c (if any) cut inside its value
Pieces(stream, c) ==
    LET Whole(k) == [line |-> stream[k], part |-> "whole"]
        Before == [k \in 1..(c - 1) |-> Whole(k)]
        After == [k \in 1..(Len(stream) - c) |-> Whole(c + k)]
    IN  IF c = 0 THEN [k \in 1..Len(stream) |-> Whole(k)]
        ELSE Before \o <<[line |-> stream[c], part |-> "head"],
                         [line |-> stream[c], part |-> "tail"]>> \o After

\* index.ts:158-164  what chunk.split('\n') and the two startsWith tests make of
\* a piece: the head of an event line names an event that is not 'error', the
\* head of a data line is text JSON.parse rejects, a tail has no prefix
SeenAs(piece) ==
    CASE piece.part = "whole" -> piece.line
      [] piece.part = "tail" -> "ignored"
      [] piece.part = "head" ->
            IF piece.line \in {"event_error", "event_other"}
              THEN "event_other" ELSE "data_junk"

ParseStart == [last |-> "", out |-> "reading"]

\* index.ts:159-190  one line of a chunk; lastEventType outlives the chunk
ParseLine(s, l) ==
    IF s.out # "reading" THEN s
    ELSE CASE l = "event_error" -> [s EXCEPT !.last = "error"]
           [] l = "event_other" -> [s EXCEPT !.last = "other"]
           [] l \in {"data_null", "data_junk", "ignored"} -> s
           [] l = "data_errobj" -> [s EXCEPT !.out = "space_error"]
           [] l \in {"data_url", "data_object"} /\ s.last = "error" ->
                 [s EXCEPT !.out = "space_error"]
           [] l = "data_url" /\ s.last # "error" -> [s EXCEPT !.out = "url"]
           [] l = "data_object" /\ s.last # "error" -> s

RECURSIVE ParseLines(_, _)
ParseLines(s, lines) ==
    IF lines = <<>> THEN s ELSE ParseLines(ParseLine(s, Head(lines)), Tail(lines))

\* index.ts:194-200  no URL at the end of the stream: one of two errors
Outcome(s) == IF s.out = "reading" THEN "no_url" ELSE s.out

\* the outcome for a stream that arrives in one chunk
ParseWhole(stream) == Outcome(ParseLines(ParseStart, stream))

\* index.ts:128-135  the reader is taken; the network fixes where the stream is cut
ChunkOpen ==
    /\ qpc = "idle"
    /\ \E stream \in ChunkedStreams, c \in 0..MaxChunkLines :
          /\ c <= Len(stream)
          /\ qstream' = stream
          /\ qcut' = c
          /\ qpieces' = Pieces(stream, c)
    /\ qstate' = ParseStart
    /\ qpc' = "read"
    /\ UNCHANGED chunkOthers

\* index.ts:153-192  one read: a chunk of n pieces is split and parsed
ChunkRead ==
    /\ qpc = "read"
    /\ qpieces # <<>>
    /\ \E n \in 1..Len(qpieces) :
          /\ \A j \in 1..(n - 1) : qpieces[j].part # "head"
          /\ LET chunk == [k \in 1..n |-> SeenAs(qpieces[k])]
                 s == ParseLines(qstate, chunk)
             IN  /\ qstate' = s
                 /\ qpieces' = SubSeq(qpieces, n + 1, Len(qpieces))
                 /\ qpc' = IF s.out = "reading" THEN "read" ELSE "done"
    /\ UNCHANGED <<chunkOthers, qstream, qcut>>

\* index.ts:154-155, 194-200  the stream is done
ChunkDone ==
    /\ qpc = "read"
    /\ qpieces = <<>>
    /\ qstate' = [qstate EXCEPT !.out = Outcome(qstate)]
    /\ qpc' = "done"
    /\ UNCHANGED <<chunkOthers, qstream, qcut, qpieces>>

ChunkNext == ChunkOpen \/ ChunkRead \/ ChunkDone

ChunkInit ==
    /\ qpc = "idle"
    /\ qstream = <<>>
    /\ qcut = 0
    /\ qpieces = <<>>
    /\ qstate = ParseStart

AuxInit == WebInit /\ SvcInit /\ ProgInit /\ SpeedInit /\ TtsInit /\ RetryInit /\ KenInit /\ UiInit /\ GhaInit /\ AsmInit /\ ChunkInit

\* ---- initial states ----
\* the row as POST /api/submit inserts it (route.ts:21-27), an empty job folder
RowInit ==
    /\ status = "pending"
    /\ progress = 0
    /\ error_message = ""
    /\ output_folder = ""
    /\ logs = {}
    /\ stAudio = {}
    /\ stImages = {}
    /\ stFinal = FALSE

EdgeInit ==
    /\ githubToken = FALSE
    /\ segment_count = <<>>
    /\ epc = "serve"
    /\ segmentCount = 0
    /\ voiceJson = NoJson
    /\ imageJson = NoJson
    /\ ei = 0
    /\ eattempt = 0
    /\ elog = NoLog
    /\ pending = {}
    /\ errMsg = ""
    /\ ttsCalls = 0
    /\ trace = <<>>
    /\ tried = {}
    /\ dispatches = <<>>

StitchIdle ==
    /\ spc = "idle"
    /\ SEGMENT_COUNT = 0
    /\ si = 0
    /\ sattempts = 0
    /\ duration = 0
    /\ audioOnDisk = FALSE
    /\ videoFiles = <<>>
    /\ audioFiles = <<>>
    /\ workDir = FALSE
    /\ slog = NoLog
    /\ serr = ""

Init == RowInit /\ EdgeInit /\ StitchIdle /\ AuxInit

\* the whole system: the edge function and the workflow runs it dispatches
Next == EdgeNext \/ StitchNext

Spec == Init /\ [][Next]_vars

\* the edge function alone: no workflow run has started yet
SpecEdge == Init /\ [][EdgeNext]_vars

\* ---- the end of the edge function run beside the workflow run ----

\* The job after generateImages uploaded its last image in a run of n segments in
\* which no request failed (index.ts:479 is next).  SpecEdge reaches these states.
AfterImages(n) ==
    /\ status = "generating_images"
    /\ progress = ImgProgressValue(n, n)
    /\ error_message = ""
    /\ output_folder = ""
    /\ logs = {<<"jsons_begin", 0>>, <<"jsons_ok", 0>>, <<"voice_begin", 0>>,
               <<"voice_done", 0>>, <<"img_begin", 0>>}
              \cup {<<k, i>> : k \in {"voice_seg", "voice_stored", "img_seg"},
                               i \in 1..n}
    /\ stAudio = 1..n
    /\ stImages = 1..n
    /\ stFinal = FALSE
    /\ githubToken = FALSE
    /\ segment_count = DecimalText(n)
    /\ epc = "img_done_log"
    /\ segmentCount = ClampCount(ParseInt(DecimalText(n)))
    /\ voiceJson = [parses |-> TRUE, keys |-> n]
    /\ imageJson = [parses |-> TRUE, keys |-> n]
    /\ ei = n + 1
    /\ eattempt = 0
    /\ elog = NoLog
    /\ pending = {}
    /\ errMsg = ""
    /\ ttsCalls = 0
    /\ trace = <<<<"call", "generateJsons">>, <<"ret", "generateJsons">>,
                 <<"call", "generateVoice">>, <<"ret", "generateVoice">>,
                 <<"call", "generateImages">>>>
    /\ tried = {<<k, i>> : k \in {"voice", "image"}, i \in 1..n}
    /\ dispatches = <<>>

InitStitch == StitchIdle /\ AuxInit /\ \E n \in 1..MaxSeg : AfterImages(n)

TailNext ==
    \/ EdgeLogRead \/ ImgDoneLog \/ TrigNoTokenLog \/ TrigLog \/ TrigFetch
    \/ TrigOkLog \/ TrigStatus \/ TrigFailLog \/ StitchNext

\* the handler's reading of segment_count alone, over every text
SpecClamp == Init /\ [][ServeAny]_vars

\* the submit route alone
SpecSubmit == Init /\ [][WebNext]_vars

\* the progress writes alone
SpecProgress == Init /\ [][ProgNext]_vars

\* the speed matching step alone
SpecSpeed == Init /\ [][SpeedNext]_vars

\* one call of qwenSpaceTTS from the answer of the poll request on
SpecTts == Init /\ [][TtsNext]_vars

\* one call of withRetry
SpecRetry == Init /\ [][RetryNext]_vars

\* the filter of one Ken Burns clip
SpecKenBurns == Init /\ [][KenNext]_vars

\* the job page beside the writers of the status
SpecPage == Init /\ [][UiNext]_vars

\* one run of the stitcher script with image fallback
SpecFallback == Init /\ [][GhaNext]_vars

\* the Ken Burns stitcher's loop and merge alone, with the lengths of the files
SpecAssembly == Init /\ [][AsmNext]_vars

\* the chunked result stream alone
SpecChunks == Init /\ [][ChunkNext]_vars

\* the stitcher service alone
SpecService == Init /\ [][SvcNext]_vars

\* triggerStitcher and the workflow run it starts, from the states AfterImages
SpecStitch == InitStitch /\ [][TailNext]_vars

\* ---- properties ----

Threw(step) == \E k \in 1..Len(trace) : trace[k] = <<"throw", step>>
Returned(step) == \E k \in 1..Len(trace) : trace[k] = <<"ret", step>>
Dispatched == \E k \in 1..Len(trace) : trace[k] = <<"dispatch", "stitch_video">>

\* C1: every change of status, by the edge function or by the stitcher, goes
\* forward in StatusOrder or to error; complete and error are never left.
StatusMovesForward ==
    [][status' # status =>
          /\ status \notin {"complete", "error"}
          /\ (status' = "error" \/ Rank(status) < Rank(status'))]_vars

\* C2: when the edge function has finished and one of its four steps failed as a
\* whole (it threw, or the dispatch of the stitcher failed), the job has status
\* error and an error_message that is not empty.
StepFailed ==
    \/ \E k \in 1..Len(trace) : trace[k][1] = "throw"
    \/ <<"trig_failed", 0>> \in logs

FailedStepEndsInError ==
    (epc = "done" /\ StepFailed) => (status = "error" /\ error_message # "")

\* C3: a started job whose edge function and workflow run have nothing left to do
\* has reached one of the final statuses complete and error.
NothingLeftToRun ==
    /\ epc = "done"
    /\ dispatches = <<>>
    /\ spc \in {"idle", "exited"}

FinishedJobIsFinal == NothingLeftToRun => status \in {"complete", "error"}

\* C4: when a voice segment or an image has failed on every retry, the step that
\* handles it writes a log entry naming the segment and leaves status alone; the
\* step does not throw, and when it returns every later segment has been tried.
SegmentFailureIsSkipped ==
    [][/\ (epc = "voice_fail_log" /\ epc' # epc) =>
              (<<"voice_failed", ei>> \in logs' /\ status' = status)
       /\ (epc = "img_fail_log" /\ epc' # epc) =>
              (<<"img_failed", ei>> \in logs' /\ status' = status)
       /\ \A i \in 1..MaxKeys :
             /\ <<"voice_failed", i>> \in logs' =>
                   /\ ~Threw("generateVoice")'
                   /\ Returned("generateVoice")' =>
                         \A j \in i..voiceJson'.keys : <<"voice", j>> \in tried'
             /\ <<"img_failed", i>> \in logs' =>
                   /\ ~Threw("generateImages")'
                   /\ Returned("generateImages")' =>
                         \A j \in i..imageJson'.keys : <<"image", j>> \in tried']_vars

\* the first of two voice segments and the first of two images failed on every
\* retry, the second ones were tried and the run ended without an error
SegmentFailureSkippedSeen ==
    /\ <<"voice_failed", 1>> \in logs
    /\ <<"voice", 2>> \in tried
    /\ <<"img_failed", 1>> \in logs
    /\ <<"image", 2>> \in tried
    /\ epc = "done"
    /\ status # "error"

\* C5: once the dispatch of the stitcher was accepted, no step of the edge function
\* changes the job row (status, progress, error_message, output_folder, logs).
NoEdgeWriteAfterDispatch ==
    [][(Dispatched /\ (epc' # epc \/ elog' # elog)) => rowVars' = rowVars]_vars

\* C6: whenever status is complete, final_video.mp4 is in the job's folder of the
\* bucket and output_folder names that folder.
CompleteMeansUploaded ==
    status = "complete" => (stFinal /\ output_folder = "job")

\* C7: a stitcher run is never aborted by the audio of a segment: neither a failed
\* download nor a file ffprobe rejects reaches the catch block of main().
AudioFailureDoesNotAbort == serr # "ffprobe failed"

\* ---- the segment count as a number, read off the text without parseInt ----
Unsigned(s) == IF s # <<>> /\ s[1] = "-" THEN Tail(s) ELSE s

PointIndex(u) ==
    IF \E k \in 1..Len(u) : u[k] = "."
      THEN CHOOSE k \in 1..Len(u) : u[k] = "." /\ \A j \in 1..(k - 1) : u[j] # "."
      ELSE Len(u) + 1

WholeText(s) == SubSeq(Unsigned(s), 1, PointIndex(Unsigned(s)) - 1)
FractionText(s) == SubSeq(Unsigned(s), PointIndex(Unsigned(s)) + 1, Len(Unsigned(s)))
AllDigits(t) == \A k \in 1..Len(t) : IsDigit(t[k])
IsNegative(s) == s # <<>> /\ s[1] = "-"
IsInteger(s) == PointIndex(Unsigned(s)) > Len(Unsigned(s))
HasNoDigit(s) == \A k \in 1..Len(s) : ~IsDigit(s[k])

\* s is the numeral String() gives for a number: no leading zero, no trailing
\* zero in the fraction, no sign on zero
IsNumeral(s) ==
    /\ WholeText(s) # <<>>
    /\ AllDigits(WholeText(s))
    /\ Len(WholeText(s)) = 1 \/ WholeText(s)[1] # "0"
    /\ ~IsInteger(s) =>
          /\ FractionText(s) # <<>>
          /\ AllDigits(FractionText(s))
          /\ FractionText(s)[Len(FractionText(s))] # "0"
    /\ IsNegative(s) => \E k \in 1..Len(s) : IsDigit(s[k]) /\ s[k] # "0"

\* the integer part of the number's magnitude, and the number cut to an integer
Whole(s) == DigitPrefixValue(WholeText(s), 0)
Truncated(s) == IF IsNegative(s) THEN -Whole(s) ELSE Whole(s)

AtMostFiveTtsCalls == ttsCalls <= 5

\* ---- the order of the steps of pipeline() ----
Canonical(dispatched) ==
    <<<<"call", "generateJsons">>, <<"ret", "generateJsons">>,
      <<"call", "generateVoice">>, <<"ret", "generateVoice">>,
      <<"call", "generateImages">>, <<"ret", "generateImages">>,
      <<"call", "triggerStitcher">>>>
    \o (IF dispatched THEN <<<<"dispatch", "stitch_video">>>> ELSE <<>>)
    \o <<<<"ret", "triggerStitcher">>>>

IsPrefix(a, b) == Len(a) <= Len(b) /\ SubSeq(b, 1, Len(a)) = a

HasThrown == trace # <<>> /\ trace[Len(trace)][1] = "throw"

BeforeThrow == IF HasThrown THEN SubSeq(trace, 1, Len(trace) - 1) ELSE trace

\* C10: the calls and returns of the four steps and the dispatch happen in the
\* order generateJsons, generateVoice, generateImages, triggerStitcher, each call
\* after the return of the step before it, with at most one dispatch and that
\* one inside triggerStitcher; a throw is the last event, it comes from the step
\* that was running, and only setError runs after it.
StepsInOrder ==
    /\ IsPrefix(BeforeThrow, Canonical(TRUE)) \/ IsPrefix(BeforeThrow, Canonical(FALSE))
    /\ Len(dispatches) <= 1
    /\ HasThrown =>
          /\ BeforeThrow # <<>>
          /\ BeforeThrow[Len(BeforeThrow)] = <<"call", trace[Len(trace)][2]>>
          /\ epc \in {"seterr_log", "seterr_status", "done"}

\* the four steps ran to the end and the stitcher was dispatched
AllStepsRan == epc = "done" /\ trace = Canonical(TRUE)

\* ---- POST /api/submit ----
RowsBy(r) == {k \in 1..Len(wrows) : wrows[k].by = r}
TriggersBy(r) == {k \in 1..Len(wtrig) : wtrig[k].by = r}

\* C11: a request answered with success has inserted exactly one row, with status
\* pending and progress 0, and has sent exactly one request to the edge function,
\* with the id of that row, which is the job_id of the response; the response is
\* given while that request is still unanswered, and the settling of a trigger
\* request changes neither a response nor a row.
SubmitInsertsAndTriggersOnce ==
    [][/\ \A r \in RequestIds :
             wresp'[r].success =>
                /\ Cardinality(RowsBy(r)') = 1
                /\ Cardinality(TriggersBy(r)') = 1
                /\ \A k \in RowsBy(r)' :
                      /\ wrows'[k].status = "pending"
                      /\ wrows'[k].progress = 0
                      /\ wresp'[r].job_id = k
                /\ \A k \in TriggersBy(r)' : wtrig'[k].job_id = wresp'[r].job_id
                /\ ~wresp[r].success =>
                      \A k \in TriggersBy(r)' : wtrig'[k].outcome = "sent"
       /\ (\E k \in 1..Len(wtrig) : k <= Len(wtrig') /\ wtrig'[k].outcome # wtrig[k].outcome) =>
             (wresp' = wresp /\ wrows' = wrows)]_vars

\* both requests were answered with success and the trigger of the first failed
SubmitAnsweredTriggerFailed ==
    /\ \A r \in RequestIds : wresp[r].success
    /\ \E k \in TriggersBy(1) : wtrig[k].outcome = "failed"

\* ---- stitcher service ----
SvcRunning == {r \in SvcRequests : vpc[r] \notin {"idle", "done"}}

\* C12: the work of at most one /stitch request is under way at any time, so no
\* two requests under way have the same job and with it the same work directory.
OneStitchAtATime == Cardinality(SvcRunning) <= 1

\* ---- progress ----
\* C13: every progress value written is an integer in 0..100, whatever the
\* segment count in 1..60 and however many segments were generated, and a write
\* leaves progress at 100 exactly when it sets status to complete.
ProgressInRange ==
    [][/\ gprogress' \in 0..100
       /\ (gprogress' = 100) <=> (gstatus' = "complete")]_progVars

\* a job of 60 segments was completed
ProgressSixtyComplete ==
    /\ gcount = MaxSegmentCount
    /\ gstatus = "complete"
    /\ gprogress = 100

\* ---- speed matching ----
\* the product of the atempo factors, in millionths
Tempo == IF Len(matempo) = 2 THEN 2 * matempo[2].micro ELSE matempo[1].micro

SpeedDecision ==
    mpc = "mix" =>
        /\ madjusted <=> (mvoice /\ Abs(mvideo - maudio) > HalfSecond)
        /\ ~madjusted => mpts = NoNumber /\ matempo = <<>>

ErrorNullThrowsAtOnce ==
    [][/\ (/\ xpc = "read" /\ xstream # <<>>
           /\ Head(xstream) = "data_null" /\ xlast = "error") => xpc' = "thrown"
       /\ (/\ xpc = "read" /\ xstream # <<>>
           /\ Head(xstream) = "data_errobj") => xpc' = "thrown"
       /\ (xpc = "read" /\ xstream = <<>>) => xpc' = "thrown"
       /\ xpc' = "returned" => xurl]_ttsVars

\* ---- generateJsons ----
\* C16: once generateJsons has logged 'Prompts successfully generated and
\* validated.' and returned, voice_json and image_json each parse as an object
\* with at least one segment entry.
ValidatedJsonsHaveSegments ==
    Returned("generateJsons") =>
        /\ voiceJson.parses /\ voiceJson.keys >= 1
        /\ imageJson.parses /\ imageJson.keys >= 1

\* ---- withRetry ----
\* C17: withRetry calls fn at most retries + 1 times; it returns at the first
\* call that succeeds and calls nothing after it; when every call fails it
\* throws the error of the last call; onRetry is called once after each failed
\* call but the last, with 1, 2, ... in order, and never after a success.
RetryContract ==
    [][/\ rcalls' <= rretries' + 1
       /\ rcalls' = Len(rerrs') + (IF rpc' = "returned" THEN 1 ELSE 0)
       /\ rpc = "returned" => UNCHANGED <<rcalls, rnotified>>
       /\ rpc' = "thrown" =>
             /\ rcalls' = rretries' + 1
             /\ rthrown' = rerrs'[Len(rerrs')]
       /\ rnotified' = [k \in 1..Len(rnotified') |-> k]
       /\ Len(rnotified') = Len(rerrs') - (IF rpc' = "thrown" THEN 1 ELSE 0)]_retryVars

\* with retries = 2 three calls failed, the last with another error than the
\* first, and withRetry threw after two calls of onRetry
RetryExhaustedSeen ==
    /\ rpc = "thrown"
    /\ rretries = 2
    /\ rcalls = 3
    /\ rnotified = <<1, 2>>
    /\ rerrs[1] # rerrs[3]
    /\ rthrown = rerrs[3]

\* ---- Ken Burns stitcher: segments that fail ----
NoClipMessage == "No video segments successfully created."

VoiceLoop == {"voice_seg_log", "voice_try", "voice_upload", "voice_fin_log",
              "voice_fail_log", "voice_skip_log"}

PanStaysInsideImage ==
    kpc # "idle" =>
        /\ \A r \in 1..4 : (ki - 1) % 4 = r - 1 => kstyle = motions[r]
        /\ kframes >= 2
        /\ kframes * 1000 >= kms * Fps
        /\ kframes > 2 => (kframes - 1) * 1000 < kms * Fps
        /\ (kpc = "frame") =>
              /\ kn \in 0..(kframes - 1)
              /\ kx.den > 0
              /\ kx.num >= 0
              /\ kx.num * ZoomNum <= Iw * (ZoomNum - ZoomDen) * kx.den

\* the last of the 180 frames of a pan_left clip of the default duration
LastPanFrameSeen ==
    /\ kpc = "frame"
    /\ kstyle = "pan_left"
    /\ kms = DefaultDuration * 1000
    /\ kn = kframes - 1
    /\ kframes = 180

\* ---- progress tracker ----
\* the position of a status in the pipeline, also of one that is no step
Before(stepKey, st) == Rank(stepKey) < Rank(st)

\* C21: for the status the page shows, the tracker gives the position of the
\* job: with a status other than error every step before it is done, the step
\* of that status is active (done for complete) and later steps are pending;
\* with status error the steps before the one that failed are done and the
\* step that failed is error.
TrackerShowsPosition ==
    ushown # NotShown =>
        \A k \in 1..Len(PIPELINE_STEPS) :
            LET step == PIPELINE_STEPS[k] IN
            IF ushown = "error"
              THEN /\ Before(step, ushownFailed) => ustates[k] = "done"
                   /\ step = ushownFailed => ustates[k] = "error"
              ELSE /\ Before(step, ushown) => ustates[k] = "done"
                   /\ step = ushown => ustates[k] = (IF step = "complete" THEN "done" ELSE "active")
                   /\ Before(ushown, step) => ustates[k] = "pending"

\* ---- stitcher script with image fallback ----
GhaAfterLoop == {"concat_video", "concat_audio", "probe", "adjust", "mix", "upload", "complete"}

\* C22: videoFiles holds at most one clip per segment of 1..SEGMENT_COUNT, in
\* strictly increasing segment order; the image is tried only for a segment
\* whose video did not download; the steps after the loop run only with a clip,
\* and a run that ends without one has written status error and uploaded nothing.
OneClipPerSegmentInOrder ==
    /\ \A a \in 1..Len(aclips) : aclips[a][1] \in 1..acount
    /\ \A a, b \in 1..Len(aclips) : a < b => aclips[a][1] < aclips[b][1]
    /\ apc \in {"image", "slice"} =>
          /\ ~ahasVideo
          /\ \A a \in 1..Len(aclips) : aclips[a][1] # ai
    /\ apc \in GhaAfterLoop => aclips # <<>>
    /\ (apc = "exited" /\ acount > 0 /\ aclips = <<>>) =>
          /\ arow.status = "error"
          /\ ~afinal

\* of two segments the first gave a clip from its image and the second its
\* generated video, and the run completed
FallbackThenVideoSeen ==
    /\ apc = "exited"
    /\ aclips = <<<<1, "image">>, <<2, "video">>>>
    /\ arow.status = "complete"

\* ---- progress over the life of a job ----
\* C23: no write by the edge function or by the stitcher lowers the progress
\* stored in the job row.
ProgressNeverDrops == [][progress' >= progress]_vars

\* ---- logs ----
\* C24: the logs of a job only grow: every entry that is in the array stays in
\* it after every later addLog, awaited or not, of the edge function and of the
\* stitcher.
LogsOnlyGrow == [][logs \subseteq logs']_vars

\* ---- alignment of the merged tracks ----
\* the start of segment seg in a concatenated track, -1 when it is not in it
StartIn(track, seg) ==
    IF \E k \in 1..Len(track) : track[k].seg = seg
      THEN LET k == CHOOSE k \in 1..Len(track) : track[k].seg = seg IN track[k].start
      ELSE -1

\* C25: after the final merge, every segment that has both its voice file and
\* its clip starts at the same time in the concatenated audio as in the
\* concatenated video.
AudioStartsWithItsClip ==
    zpc = "merged" =>
        \A seg \in 1..zcount :
            (StartIn(zouta, seg) # -1 /\ StartIn(zoutv, seg) # -1)
                => StartIn(zouta, seg) = StartIn(zoutv, seg)

\* ---- the work directory ----
\* C26: when a run of the stitcher script has ended, completed or failed, its
\* work directory /tmp/stitch_<job_id> is gone.
WorkDirGoneAtExit == spc = "exited" => ~workDir

\* ---- the atempo chain ----
\* C27: for two positive durations that trigger the speed adjustment, every
\* atempo factor is a number between 0.5 and 2.0.
TempoFactorsInRange ==
    (mpc = "mix" /\ madjusted /\ mvideo > 0 /\ maudio > 0) =>
        \A k \in 1..Len(matempo) :
            /\ ~matempo[k].inf
            /\ Micro <= 2 * matempo[k].micro
            /\ matempo[k].micro <= 2 * Micro

\* ---- chunks of the result stream ----
\* C28: whatever the chunks the stream arrives in, with cuts between two lines
\* and with a cut inside a data line, the parse ends as it does for the stream
\* in one chunk.
ChunkingDoesNotMatter ==
    (/\ qpc = "done"
     /\ qcut # 0 => qstream[qcut] \notin {"event_error", "event_other"})
        => qstate.out = ParseWhole(qstream)

====
